---- MODULE Spec2Model ----
\* Model of the protocol-translating gateway: proxy.rs (handlers and the
\* streaming transcoder create_sse_stream), transform.rs (request and
\* response transcoders, stop-reason mapping) and error.rs (HTTP statuses).
EXTENDS Integers, Sequences, FiniteSets, TLC

\* ---------------------------------------------------------------- bounds
\* Number of backend records (line + terminator) in one backend body.
MaxRecords == 2
\* Number of successful byte reads the backend stream yields in one call.
MaxReads == 2
\* Number of content blocks in one client message.
MaxBlocks == 3
\* Number of tools in one client request.
MaxTools == 2
\* Nesting depth of a tool's input schema.
MaxDepth == 2

\* ------------------------------------------------------- Option encoding
\* Rust Option<T>: None is the empty sequence, Some(v) the one-element one.
None == <<>>
Some(v) == <<v>>
IsSome(o) == o # <<>>
IsNone(o) == o = <<>>
\* Option::unwrap_or_default for Option<String>.
UnwrapOrDefault(o) == IF o = <<>> THEN "" ELSE o[1]

\* ------------------------------------------------- Format-B delta chunks
\* openai::StreamChunk and its parts, with the fields create_sse_stream reads.
Function(name, arguments) == [name |-> name, arguments |-> arguments]
ToolCallDelta(id, function) == [id |-> id, function |-> function]
Delta(reasoning, content, tool_calls) ==
  [reasoning |-> reasoning, content |-> content, tool_calls |-> tool_calls]
Choice(delta, finish_reason) == [delta |-> delta, finish_reason |-> finish_reason]
StreamChunk(id, model, choices, usage) ==
  [id |-> id, model |-> model, choices |-> choices, usage |-> usage]

NoChunk == StreamChunk("", "", <<>>, None)

\* The JSON bodies the backend sends. On the wire a body without a content
\* string is one run of ASCII bytes, named by its key here; a body whose delta
\* has a content string is the run up to the opening quote of that string
\* (the key), the bytes of the string, and the closing run CLOSE.
Template ==
  [ C_TEXT |->
      StreamChunk("m1", "g", <<Choice(Delta(None, Some(<<>>), None), None)>>, None),
    C_THINK |->
      StreamChunk("m1", "g", <<Choice(Delta(Some("hm"), None, None), None)>>, None),
    C_TOOL_OPEN |->
      StreamChunk("m1", "g",
        <<Choice(Delta(None, None,
            Some(<<ToolCallDelta(Some("t1"), Some(Function(Some("lookup"), None)))>>)),
          None)>>, None),
    C_TOOL_ARGS |->
      StreamChunk("m1", "g",
        <<Choice(Delta(None, None,
            Some(<<ToolCallDelta(None, Some(Function(None, Some("{x"))))>>)),
          None)>>, None),
    C_TOOL_ID |->
      StreamChunk("m1", "g",
        <<Choice(Delta(None, None, Some(<<ToolCallDelta(Some("t2"), None)>>)),
          None)>>, None),
    C_TOOL_NAME |->
      StreamChunk("m1", "g",
        <<Choice(Delta(None, None,
            Some(<<ToolCallDelta(None, Some(Function(Some("other"), None)))>>)),
          None)>>, None),
    C_STOP |->
      StreamChunk("m1", "g", <<Choice(Delta(None, Some(<<>>), None), Some("stop"))>>, None),
    C_TOOLS_FIN |->
      StreamChunk("m1", "g",
        <<Choice(Delta(None, None,
            Some(<<ToolCallDelta(None, Some(Function(None, Some(":1}"))))>>)),
          Some("tool_calls"))>>, Some(7)),
    C_LENGTH |->
      StreamChunk("m1", "g", <<Choice(Delta(None, None, None), Some("length"))>>, Some(3)),
    C_FILTER |->
      StreamChunk("m1", "g",
        <<Choice(Delta(None, None, None), Some("content_filter"))>>, None),
    C_USAGE |->
      StreamChunk("m2", "h", <<>>, Some(5)),
    C_NOID |->
      StreamChunk("", "", <<>>, None) ]

\* ------------------------------------------------------------ wire bytes
NL == "\n"
SP == " "
\* The six bytes of the data marker, and the run that closes a JSON body
\* after its content string.
DATA == "data: "
CLOSE == "\"}}]}"
\* The two bytes of one two-byte UTF-8 character, and what decoding yields.
LEAD == "0xC3"
CONT == "0xA9"
EACUTE == "U+00E9"
REPLACEMENT == "U+FFFD"
\* Characters that may stand inside a JSON string.
TextChars == {"a", EACUTE, REPLACEMENT}

\* String::from_utf8_lossy on the bytes of ONE read: a complete two-byte
\* sequence decodes to its character, every byte of an incomplete or
\* misplaced sequence becomes U+FFFD; ASCII runs decode to themselves.
RECURSIVE from_utf8_lossy(_)
from_utf8_lossy(bytes) ==
  IF bytes = <<>> THEN <<>>
  ELSE IF bytes[1] = LEAD /\ Len(bytes) >= 2 /\ bytes[2] = CONT
    THEN <<EACUTE>> \o from_utf8_lossy(SubSeq(bytes, 3, Len(bytes)))
  ELSE IF bytes[1] \in {LEAD, CONT}
    THEN <<REPLACEMENT>> \o from_utf8_lossy(Tail(bytes))
  ELSE <<bytes[1]>> \o from_utf8_lossy(Tail(bytes))

\* buffer.find("\n\n"): 1-based position of the first double newline, 0 if none.
Find(buffer) ==
  LET hits == {i \in 1..(Len(buffer) - 1) : buffer[i] = NL /\ buffer[i + 1] = NL}
  IN IF hits = {} THEN 0 ELSE CHOOSE i \in hits : \A j \in hits : i <= j

\* str::lines(): the pieces between single newlines (no trailing empty piece).
RECURSIVE Lines(_)
Lines(line) ==
  IF line = <<>> THEN <<>>
  ELSE LET nls == {i \in 1..Len(line) : line[i] = NL}
       IN IF nls = {} THEN <<line>>
          ELSE LET i == CHOOSE k \in nls : \A j \in nls : k <= j
               IN <<SubSeq(line, 1, i - 1)>> \o Lines(SubSeq(line, i + 1, Len(line)))

\* str::trim(): leading and trailing whitespace removed.
RECURSIVE Trim(_)
Trim(s) ==
  IF s = <<>> THEN <<>>
  ELSE IF s[1] \in {SP, NL} THEN Trim(Tail(s))
  ELSE IF s[Len(s)] \in {SP, NL} THEN Trim(SubSeq(s, 1, Len(s) - 1))
  ELSE s

\* l.strip_prefix("data: "): Some(rest) or None.
StripPrefix(l) ==
  IF Len(l) >= 1 /\ l[1] = DATA
    THEN Some(Tail(l))
    ELSE None

\* serde_json::from_str::<openai::StreamChunk>(data): Some(chunk) when the
\* payload is one complete JSON body (surrounding whitespace allowed), else None.
FromStr(data) ==
  LET d == Trim(data)
      n == Len(d)
  IN IF n >= 1 /\ d[1] \in DOMAIN Template
       THEN LET t == Template[d[1]]
                hasContent == t.choices # <<>> /\ IsSome(t.choices[1].delta.content)
            IN IF hasContent
                 THEN IF n >= 2 /\ d[n] = CLOSE
                         /\ \A i \in 2..(n - 1) : d[i] \in TextChars
                        THEN Some([t EXCEPT !.choices[1].delta.content =
                                              Some(SubSeq(d, 2, n - 1))])
                        ELSE None
                 ELSE IF n = 1 THEN Some(t) ELSE None
       ELSE None

\* --------------------------------------------------- Format-A envelopes
Blank ==
  [type |-> "", index |-> -1, block |-> "", delta |-> "", id |-> "", name |-> "",
   model |-> "", text |-> <<>>, stop_reason |-> "", input_tokens |-> -1,
   output_tokens |-> -1]

MessageStartEvent(id, model) ==
  [Blank EXCEPT !.type = "message_start", !.id = id, !.model = model,
                !.input_tokens = 0, !.output_tokens = 0]
ContentBlockStart(index, block, id, name) ==
  [Blank EXCEPT !.type = "content_block_start", !.index = index, !.block = block,
                !.id = id, !.name = name]
ContentBlockDelta(index, delta, text) ==
  [Blank EXCEPT !.type = "content_block_delta", !.index = index, !.delta = delta,
                !.text = text]
ContentBlockStop(index) ==
  [Blank EXCEPT !.type = "content_block_stop", !.index = index]
\* usage is Option<output tokens>; a missing usage is the JSON null.
MessageDelta(stop_reason, usage) ==
  [Blank EXCEPT !.type = "message_delta", !.stop_reason = stop_reason,
                !.output_tokens = IF usage = <<>> THEN -1 ELSE usage[1]]
MessageStop == [Blank EXCEPT !.type = "message_stop"]
ErrorEvent == [Blank EXCEPT !.type = "error", !.name = "stream_error"]

\* ------------------------------------------------- stop-reason mapping
\* map_stop_reason with the length arm lost to the default arm.
map_stop_reason_LengthDefaults(finish_reason) ==
  IF finish_reason = <<>> THEN None
  ELSE Some(CASE finish_reason[1] = "tool_calls" -> "tool_use"
              [] finish_reason[1] = "stop" -> "end_turn"
              [] OTHER -> "end_turn")

\* transform::map_stop_reason: Option<&str> -> Option<String>.
map_stop_reason(finish_reason) ==
  IF finish_reason = <<>> THEN None
  ELSE Some(CASE finish_reason[1] = "tool_calls" -> "tool_use"
              [] finish_reason[1] = "stop" -> "end_turn"
              [] finish_reason[1] = "length" -> "max_tokens"
              [] OTHER -> "end_turn")

\* --------------------------------------------------- response transcoder
\* openai::OpenAIResponse and its parts.
ToolCall(id, name, arguments) == [id |-> id, name |-> name, arguments |-> arguments]
Message(content, tool_calls) == [content |-> content, tool_calls |-> tool_calls]
ResponseChoice(message, finish_reason) ==
  [message |-> message, finish_reason |-> finish_reason]
OpenAIResponse(id, model, choices, prompt_tokens, completion_tokens) ==
  [id |-> id, model |-> model, choices |-> choices,
   usage |-> [prompt_tokens |-> prompt_tokens, completion_tokens |-> completion_tokens]]

\* serde_json::from_str::<Value>: the value of each JSON text; any other
\* string is no JSON text.
JsonValue ==
  [x1 |-> "object{x:1}", x1_spaced |-> "object{x:1}", empty |-> "object{}"]
JsonText == [x1 |-> "{\"x\":1}", x1_spaced |-> "{ \"x\": 1 }", empty |-> "{}"]
from_str_value(s) ==
  IF \E k \in DOMAIN JsonText : JsonText[k] = s
    THEN Some(JsonValue[CHOOSE k \in DOMAIN JsonText : JsonText[k] = s])
    ELSE None

\* anthropic::ResponseContent
ResponseText(text) ==
  [type |-> "text", text |-> text, id |-> "", name |-> "", input |-> ""]
ResponseToolUse(id, name, input) ==
  [type |-> "tool_use", text |-> "", id |-> id, name |-> name, input |-> input]

RECURSIVE ToolUseBlocks(_)
ToolUseBlocks(tool_calls) ==
  IF tool_calls = <<>> THEN <<>>
  ELSE LET tool_call == Head(tool_calls)
           parsed == from_str_value(tool_call.arguments)
           input == IF IsSome(parsed) THEN parsed[1] ELSE "object{}"
       IN <<ResponseToolUse(tool_call.id, tool_call.name, input)>>
            \o ToolUseBlocks(Tail(tool_calls))

\* Result<T, ProxyError>
Ok(v) == [ok |-> TRUE, error |-> "", value |-> <<v>>]
Err(kind) == [ok |-> FALSE, error |-> kind, value |-> <<>>]

\* openai_to_anthropic that rejects tool-call arguments that are no JSON.
openai_to_anthropic_StrictArguments(resp) ==
  IF resp.choices = <<>> THEN Err("Transform")
  ELSE LET choice == resp.choices[1]
           calls == IF IsSome(choice.message.tool_calls)
                      THEN choice.message.tool_calls[1] ELSE <<>>
       IN IF \E i \in 1..Len(calls) : IsNone(from_str_value(calls[i].arguments))
            THEN Err("Serialization")
            ELSE Ok([id |-> resp.id, type |-> "message", role |-> "assistant",
                     content |-> ToolUseBlocks(calls), model |-> resp.model,
                     stop_reason |-> None, stop_sequence |-> None,
                     usage |-> [input_tokens |-> resp.usage.prompt_tokens,
                                output_tokens |-> resp.usage.completion_tokens]])

\* transform::openai_to_anthropic
openai_to_anthropic(resp) ==
  IF resp.choices = <<>> THEN Err("Transform")
  ELSE LET choice == resp.choices[1]
           text == IF IsSome(choice.message.content) /\ choice.message.content[1] # ""
                     THEN <<ResponseText(choice.message.content[1])>>
                     ELSE <<>>
           tools == IF IsSome(choice.message.tool_calls)
                      THEN ToolUseBlocks(choice.message.tool_calls[1])
                      ELSE <<>>
           stop_reason == IF IsSome(choice.finish_reason)
                            THEN map_stop_reason(Some(choice.finish_reason[1]))
                            ELSE None
       IN Ok([id |-> resp.id, type |-> "message", role |-> "assistant",
              content |-> text \o tools, model |-> resp.model,
              stop_reason |-> stop_reason, stop_sequence |-> None,
              usage |-> [input_tokens |-> resp.usage.prompt_tokens,
                         output_tokens |-> resp.usage.completion_tokens]])

\* StatusCode that answers every error with 502.
StatusCode_AlwaysBadGateway(kind) == 502

\* ProxyError::into_response: the HTTP status of each error kind.
StatusCode(kind) ==
  CASE kind = "Config" -> 500
    [] kind = "Transform" -> 400
    [] kind = "Upstream" -> 502
    [] kind = "Serialization" -> 400
    [] kind = "Http" -> 502
    [] kind = "Internal" -> 500

\* ---------------------------------------------------- request transcoder
\* serde_json::Value as far as clean_schema and has_thinking_enabled look at
\* it: a string, an array of values, or an object whose i-th member has key
\* k[i] and value m[i].
JString(s) == [t |-> "string", s |-> s, k |-> <<>>, m |-> <<>>]
JArray(elems) == [t |-> "array", s |-> "", k |-> <<>>, m |-> elems]
JObject(keys, values) == [t |-> "object", s |-> "", k |-> keys, m |-> values]

\* Value::get / Map::get with a string key, Value::as_str, Map::remove.
has_key(v, key) == v.t = "object" /\ \E i \in 1..Len(v.k) : v.k[i] = key
key_index(v, key) == CHOOSE i \in 1..Len(v.k) : v.k[i] = key
get(v, key) == IF has_key(v, key) THEN Some(v.m[key_index(v, key)]) ELSE None
as_str(o) == IF IsSome(o) /\ o[1].t = "string" THEN Some(o[1].s) ELSE None
Without(seq, i) == SubSeq(seq, 1, i - 1) \o SubSeq(seq, i + 1, Len(seq))
remove(v, key) ==
  IF has_key(v, key)
    THEN [v EXCEPT !.k = Without(v.k, key_index(v, key)),
                   !.m = Without(v.m, key_index(v, key))]
    ELSE v

\* transform::clean_schema. clean_each is its loop over the values of
\* "properties".
RECURSIVE clean_schema(_), clean_each(_)
clean_each(values) ==
  IF values = <<>> THEN <<>>
  ELSE <<clean_schema(Head(values))>> \o clean_each(Tail(values))
clean_schema(schema) ==
  IF schema.t # "object" THEN schema
  ELSE LET o1 == IF as_str(get(schema, "format")) = Some("uri")
                   THEN remove(schema, "format") ELSE schema
           o2 == IF has_key(o1, "properties") /\ get(o1, "properties")[1].t = "object"
                   THEN LET p == key_index(o1, "properties")
                        IN [o1 EXCEPT !.m[p].m = clean_each(@)]
                   ELSE o1
       IN IF has_key(o2, "items")
            THEN [o2 EXCEPT !.m[key_index(o2, "items")] = clean_schema(@)]
            ELSE o2

\* transform::has_thinking_enabled on the request's extra fields.
has_thinking_enabled(extra) ==
  LET thinking == get(extra, "thinking")
  IN IF IsSome(thinking) /\ thinking[1].t = "object"
       THEN as_str(get(thinking[1], "type")) = Some("enabled")
       ELSE FALSE

\* select_model that always takes the completion override.
select_model_IgnoresThinking(config, req, has_thinking) ==
  IF IsSome(config.completion_model) THEN config.completion_model[1] ELSE req.model

\* transform::select_model
select_model(config, req, has_thinking) ==
  IF has_thinking
    THEN IF IsSome(config.reasoning_model) THEN config.reasoning_model[1] ELSE req.model
    ELSE IF IsSome(config.completion_model) THEN config.completion_model[1] ELSE req.model

\* anthropic::ContentBlock
TextBlock(text) ==
  [type |-> "text", text |-> text, media_type |-> "", data |-> "", id |-> "",
   name |-> "", input |-> "", tool_use_id |-> "", content |-> ""]
ImageBlock(media_type, data) ==
  [type |-> "image", text |-> "", media_type |-> media_type, data |-> data, id |-> "",
   name |-> "", input |-> "", tool_use_id |-> "", content |-> ""]
ToolUseBlock(id, name, input) ==
  [type |-> "tool_use", text |-> "", media_type |-> "", data |-> "", id |-> id,
   name |-> name, input |-> input, tool_use_id |-> "", content |-> ""]
ToolResultBlock(tool_use_id, content) ==
  [type |-> "tool_result", text |-> "", media_type |-> "", data |-> "", id |-> "",
   name |-> "", input |-> "", tool_use_id |-> tool_use_id, content |-> content]
ThinkingBlock(thinking) ==
  [type |-> "thinking", text |-> thinking, media_type |-> "", data |-> "", id |-> "",
   name |-> "", input |-> "", tool_use_id |-> "", content |-> ""]

\* anthropic::MessageContent, anthropic::Message, anthropic::SystemPrompt
TextContent(text) == [kind |-> "text", text |-> text, blocks |-> <<>>]
BlocksContent(blocks) == [kind |-> "blocks", text |-> "", blocks |-> blocks]
AnthropicMessage(role, content) == [role |-> role, content |-> content]
SystemSingle(text) == [kind |-> "single", text |-> text, blocks |-> <<>>]
SystemMultiple(texts) == [kind |-> "multiple", text |-> "", blocks |-> texts]

\* openai::ContentPart and openai::MessageContent. The data URL of an image
\* is the sequence of the pieces format! joins.
PartText(text) == [type |-> "text", text |-> text, url |-> <<>>]
PartImageUrl(url) == [type |-> "image_url", text |-> "", url |-> url]
DataUrl(media_type, data) == <<"data:", media_type, ";base64,", data>>
ContentText(text) == [kind |-> "text", text |-> text, parts |-> <<>>]
ContentParts(parts) == [kind |-> "parts", text |-> "", parts |-> parts]

\* transform::openai_message
openai_message(role, content, tool_calls, tool_call_id) ==
  [role |-> role, content |-> content, tool_calls |-> tool_calls,
   tool_call_id |-> tool_call_id, name |-> None]

\* serde_json::to_string of a tool-use input: the compact JSON text.
to_string_value(input) ==
  CASE input = JsonValue.x1 -> JsonText.x1
    [] input = JsonValue.empty -> JsonText.empty

\* convert_block that puts a tool result into the parent's parts.
convert_block_MergesToolResult(acc, block, ser) ==
  CASE block.type = "text" ->
         [acc EXCEPT !.current_content_parts = Append(@, PartText(block.text))]
    [] block.type = "image" ->
         [acc EXCEPT !.current_content_parts =
            Append(@, PartImageUrl(DataUrl(block.media_type, block.data)))]
    [] block.type = "tool_use" ->
         IF ser
           THEN [acc EXCEPT !.tool_calls =
                   Append(@, ToolCall(block.id, block.name, to_string_value(block.input)))]
           ELSE [acc EXCEPT !.error = "Serialization"]
    [] block.type = "tool_result" ->
         [acc EXCEPT !.current_content_parts = Append(@, PartText(block.content))]
    [] block.type = "thinking" -> acc

\* One iteration of the loop over the blocks in convert_message: the match
\* on the block. ser is the outcome of serde_json::to_string, a Result.
convert_block(acc, block, ser) ==
  CASE block.type = "text" ->
         [acc EXCEPT !.current_content_parts = Append(@, PartText(block.text))]
    [] block.type = "image" ->
         [acc EXCEPT !.current_content_parts =
            Append(@, PartImageUrl(DataUrl(block.media_type, block.data)))]
    [] block.type = "tool_use" ->
         IF ser
           THEN [acc EXCEPT !.tool_calls =
                   Append(@, ToolCall(block.id, block.name, to_string_value(block.input)))]
           ELSE [acc EXCEPT !.error = "Serialization"]
    [] block.type = "tool_result" ->
         [acc EXCEPT !.result =
            Append(@, openai_message("tool", Some(ContentText(block.content)), None,
                                     Some(block.tool_use_id)))]
    [] block.type = "thinking" -> acc

\* The loop over the blocks; the ? on to_string leaves it at the first error.
RECURSIVE convert_blocks(_, _, _)
convert_blocks(blocks, acc, ser) ==
  IF blocks = <<>> \/ acc.error # "" THEN acc
  ELSE convert_blocks(Tail(blocks), convert_block(acc, Head(blocks), ser), ser)

\* message_content that keeps a single text part as a parts list.
message_content_AlwaysParts(current_content_parts) ==
  IF current_content_parts = <<>> THEN None
  ELSE Some(ContentParts(current_content_parts))

\* The content of the role message in convert_message.
message_content(current_content_parts) ==
  IF current_content_parts = <<>> THEN None
  ELSE IF Len(current_content_parts) = 1
    THEN IF current_content_parts[1].type = "text"
           THEN Some(ContentText(current_content_parts[1].text))
           ELSE Some(ContentParts(current_content_parts))
    ELSE Some(ContentParts(current_content_parts))

\* transform::convert_message
convert_message(msg, ser) ==
  IF msg.content.kind = "text"
    THEN Ok(<<openai_message(msg.role, Some(ContentText(msg.content.text)), None, None)>>)
    ELSE LET acc == convert_blocks(msg.content.blocks,
                      [result |-> <<>>, current_content_parts |-> <<>>,
                       tool_calls |-> <<>>, error |-> ""], ser)
         IN IF acc.error # "" THEN Err(acc.error)
            ELSE IF acc.current_content_parts # <<>> \/ acc.tool_calls # <<>>
              THEN Ok(Append(acc.result,
                        openai_message(msg.role, message_content(acc.current_content_parts),
                          IF acc.tool_calls # <<>> THEN Some(acc.tool_calls) ELSE None,
                          None)))
              ELSE Ok(acc.result)

\* The loop over req.messages in anthropic_to_openai, with its ?.
RECURSIVE convert_messages(_, _)
convert_messages(messages, ser) ==
  IF messages = <<>> THEN Ok(<<>>)
  ELSE LET first == convert_message(Head(messages), ser)
       IN IF ~first.ok THEN first
          ELSE LET rest == convert_messages(Tail(messages), ser)
               IN IF ~rest.ok THEN rest ELSE Ok(first.value[1] \o rest.value[1])

\* The system messages anthropic_to_openai pushes first.
RECURSIVE system_each(_)
system_each(texts) ==
  IF texts = <<>> THEN <<>>
  ELSE <<openai_message("system", Some(ContentText(Head(texts))), None, None)>>
         \o system_each(Tail(texts))
system_messages(system) ==
  IF IsNone(system) THEN <<>>
  ELSE IF system[1].kind = "single"
    THEN <<openai_message("system", Some(ContentText(system[1].text)), None, None)>>
    ELSE system_each(system[1].blocks)

\* anthropic::Tool and openai::Tool
AnthropicTool(name, description, input_schema, tool_type) ==
  [name |-> name, description |-> description, input_schema |-> input_schema,
   tool_type |-> tool_type]
OpenAITool(name, description, parameters) ==
  [tool_type |-> "function",
   function |-> [name |-> name, description |-> description, parameters |-> parameters]]

IsNotBatchTool(t) == t.tool_type # Some("BatchTool")
RECURSIVE map_tools(_)
map_tools(filtered) ==
  IF filtered = <<>> THEN <<>>
  ELSE <<OpenAITool(Head(filtered).name, Head(filtered).description,
                    clean_schema(Head(filtered).input_schema))>>
         \o map_tools(Tail(filtered))

\* convert_tools that passes an empty list on.
convert_tools_KeepsEmpty(tools) ==
  IF IsNone(tools) THEN None
  ELSE Some(map_tools(SelectSeq(tools[1], IsNotBatchTool)))

\* The tools of the outgoing request: req.tools.and_then(filter, map).
convert_tools(tools) ==
  IF IsNone(tools) THEN None
  ELSE LET filtered == SelectSeq(tools[1], IsNotBatchTool)
       IN IF filtered = <<>> THEN None ELSE Some(map_tools(filtered))

\* anthropic::AnthropicRequest and config::Config, with the fields the
\* transcoder reads.
AnthropicRequest(model, system, messages, stream, tools, extra) ==
  [model |-> model, system |-> system, messages |-> messages, max_tokens |-> 64,
   temperature |-> None, top_p |-> None, stop_sequences |-> None,
   stream |-> stream, tools |-> tools, extra |-> extra]
Config(reasoning_model, completion_model) ==
  [reasoning_model |-> reasoning_model, completion_model |-> completion_model]

\* transform::anthropic_to_openai
anthropic_to_openai(req, config, ser) ==
  LET has_thinking == has_thinking_enabled(req.extra)
      model == select_model(config, req, has_thinking)
      converted == convert_messages(req.messages, ser)
  IN IF ~converted.ok THEN converted
     ELSE Ok([model |-> model,
              messages |-> system_messages(req.system) \o converted.value[1],
              max_tokens |-> Some(req.max_tokens), temperature |-> req.temperature,
              top_p |-> req.top_p, stop |-> req.stop_sequences, stream |-> req.stream,
              tools |-> convert_tools(req.tools), tool_choice |-> None])

\* --------------------------------------------------- streaming transcoder
\* The locals of create_sse_stream other than the buffer.
InitState ==
  [message_id |-> None, current_model |-> None, content_index |-> 0,
   tool_call_id |-> None, has_sent_message_start |-> FALSE,
   current_block_type |-> None]

\* An accumulator a = [s |-> locals, em |-> envelopes yielded so far].
Yield(a, event) == [a EXCEPT !.em = Append(@, event)]

\* First-chunk bookkeeping of the ids.
SetIds(a, chunk) ==
  [a EXCEPT !.s.message_id = IF IsNone(@) THEN Some(chunk.id) ELSE @,
            !.s.current_model = IF IsNone(@) THEN Some(chunk.model) ELSE @]

\* SendMessageStart without the assignment of the flag.
SendMessageStart_FlagNotSet(a) ==
  IF ~a.s.has_sent_message_start
    THEN Yield(a, MessageStartEvent(UnwrapOrDefault(a.s.message_id),
                                    UnwrapOrDefault(a.s.current_model)))
    ELSE a

\* The message_start envelope, once per call.
SendMessageStart(a) ==
  IF ~a.s.has_sent_message_start
    THEN [Yield(a, MessageStartEvent(UnwrapOrDefault(a.s.message_id),
                                     UnwrapOrDefault(a.s.current_model)))
            EXCEPT !.s.has_sent_message_start = TRUE]
    ELSE a

\* ReasoningDelta closing a differently-typed open block first, as the
\* text branch does.
ReasoningDelta_ClosesOther(a, choice) ==
  IF IsSome(choice.delta.reasoning)
    THEN LET b == IF a.s.current_block_type # Some("thinking")
                    THEN LET c == IF IsSome(a.s.current_block_type)
                                    THEN [Yield(a, ContentBlockStop(a.s.content_index))
                                            EXCEPT !.s.content_index = @ + 1]
                                    ELSE a
                         IN [Yield(c, ContentBlockStart(c.s.content_index, "thinking", "", ""))
                               EXCEPT !.s.current_block_type = Some("thinking")]
                    ELSE a
         IN Yield(b, ContentBlockDelta(b.s.content_index, "thinking_delta",
                                       <<choice.delta.reasoning[1]>>))
    ELSE a

\* if let Some(reasoning) = &choice.delta.reasoning
ReasoningDelta(a, choice) ==
  IF IsSome(choice.delta.reasoning)
    THEN LET b == IF IsNone(a.s.current_block_type)
                    THEN [Yield(a, ContentBlockStart(a.s.content_index, "thinking", "", ""))
                            EXCEPT !.s.current_block_type = Some("thinking")]
                    ELSE a
         IN Yield(b, ContentBlockDelta(b.s.content_index, "thinking_delta",
                                       <<choice.delta.reasoning[1]>>))
    ELSE a

\* TextDelta closing the open block without advancing the index.
TextDelta_KeepsIndex(a, choice) ==
  IF IsSome(choice.delta.content) /\ choice.delta.content[1] # <<>>
    THEN LET b == IF a.s.current_block_type # Some("text")
                    THEN LET c == IF IsSome(a.s.current_block_type)
                                    THEN Yield(a, ContentBlockStop(a.s.content_index))
                                    ELSE a
                         IN [Yield(c, ContentBlockStart(c.s.content_index, "text", "", ""))
                               EXCEPT !.s.current_block_type = Some("text")]
                    ELSE a
         IN Yield(b, ContentBlockDelta(b.s.content_index, "text_delta",
                                       choice.delta.content[1]))
    ELSE a

\* if let Some(content) = &choice.delta.content
TextDelta(a, choice) ==
  IF IsSome(choice.delta.content) /\ choice.delta.content[1] # <<>>
    THEN LET b == IF a.s.current_block_type # Some("text")
                    THEN LET c == IF IsSome(a.s.current_block_type)
                                    THEN [Yield(a, ContentBlockStop(a.s.content_index))
                                            EXCEPT !.s.content_index = @ + 1]
                                    ELSE a
                         IN [Yield(c, ContentBlockStart(c.s.content_index, "text", "", ""))
                               EXCEPT !.s.current_block_type = Some("text")]
                    ELSE a
         IN Yield(b, ContentBlockDelta(b.s.content_index, "text_delta",
                                       choice.delta.content[1]))
    ELSE a

\* ToolCallFragment closing the open block on every fragment, with or
\* without a call id.
ToolCallFragment_ClosesAlways(a, tool_call) ==
  LET c == IF IsSome(a.s.current_block_type)
             THEN [Yield(a, ContentBlockStop(a.s.content_index))
                     EXCEPT !.s.content_index = @ + 1]
             ELSE a
      b == IF IsSome(tool_call.id)
             THEN [c EXCEPT !.s.tool_call_id = Some(tool_call.id[1])]
             ELSE c
  IN IF IsSome(tool_call.function)
       THEN LET function == tool_call.function[1]
                d == IF IsSome(function.name)
                       THEN [Yield(b, ContentBlockStart(b.s.content_index, "tool_use",
                                        UnwrapOrDefault(b.s.tool_call_id),
                                        function.name[1]))
                               EXCEPT !.s.current_block_type = Some("tool_use")]
                       ELSE b
            IN IF IsSome(function.arguments)
                 THEN Yield(d, ContentBlockDelta(d.s.content_index, "input_json_delta",
                                                 <<function.arguments[1]>>))
                 ELSE d
       ELSE b

\* The body of  for tool_call in tool_calls.
ToolCallFragment(a, tool_call) ==
  LET b == IF IsSome(tool_call.id)
             THEN LET c == IF IsSome(a.s.current_block_type)
                             THEN [Yield(a, ContentBlockStop(a.s.content_index))
                                     EXCEPT !.s.content_index = @ + 1]
                             ELSE a
                  IN [c EXCEPT !.s.tool_call_id = Some(tool_call.id[1])]
             ELSE a
  IN IF IsSome(tool_call.function)
       THEN LET function == tool_call.function[1]
                d == IF IsSome(function.name)
                       THEN [Yield(b, ContentBlockStart(b.s.content_index, "tool_use",
                                        UnwrapOrDefault(b.s.tool_call_id),
                                        function.name[1]))
                               EXCEPT !.s.current_block_type = Some("tool_use")]
                       ELSE b
            IN IF IsSome(function.arguments)
                 THEN Yield(d, ContentBlockDelta(d.s.content_index, "input_json_delta",
                                                 <<function.arguments[1]>>))
                 ELSE d
       ELSE b

RECURSIVE ToolCallLoop(_, _)
ToolCallLoop(a, tool_calls) ==
  IF tool_calls = <<>> THEN a
  ELSE ToolCallLoop(ToolCallFragment(a, Head(tool_calls)), Tail(tool_calls))

\* if let Some(tool_calls) = &choice.delta.tool_calls
ToolCalls(a, choice) ==
  IF IsSome(choice.delta.tool_calls)
    THEN ToolCallLoop(a, choice.delta.tool_calls[1])
    ELSE a

\* Finish advancing the index after the stop, as the other branches do.
Finish_AdvancesIndex(a, choice, chunk) ==
  IF IsSome(choice.finish_reason)
    THEN LET b == IF IsSome(a.s.current_block_type)
                    THEN [Yield(a, ContentBlockStop(a.s.content_index))
                            EXCEPT !.s.content_index = @ + 1]
                    ELSE a
         IN Yield(b, MessageDelta(UnwrapOrDefault(map_stop_reason(choice.finish_reason)),
                                  chunk.usage))
    ELSE a

\* if let Some(finish_reason) = &choice.finish_reason
Finish(a, choice, chunk) ==
  IF IsSome(choice.finish_reason)
    THEN LET b == IF IsSome(a.s.current_block_type)
                    THEN Yield(a, ContentBlockStop(a.s.content_index))
                    ELSE a
         IN Yield(b, MessageDelta(UnwrapOrDefault(map_stop_reason(choice.finish_reason)),
                                  chunk.usage))
    ELSE a

\* Everything done with one successfully parsed chunk.
ProcessChunk(a, chunk) ==
  LET a1 == SetIds(a, chunk)
  IN IF chunk.choices = <<>> THEN a1
     ELSE LET choice == chunk.choices[1]
              a2 == SendMessageStart(a1)
              a3 == ReasoningDelta(a2, choice)
              a4 == TextDelta(a3, choice)
              a5 == ToolCalls(a4, choice)
          IN Finish(a5, choice, chunk)

\* ProcessDone also forgetting the open block.
ProcessDone_ClearsBlock(a) ==
  [Yield(a, MessageStop) EXCEPT !.s.current_block_type = None]

\* The [DONE] sentinel.
ProcessDone(a) == Yield(a, MessageStop)

\* ProcessMalformed surfacing the parse failure as an error envelope.
ProcessMalformed_Reports(a) == Yield(a, ErrorEvent)

\* A payload that serde_json rejects:  else { continue }.
ProcessMalformed(a) == a

\* One entry of the processing log: the payload, the locals before and
\* after it, and the envelopes it produced.
Step(kind, chunk, pre, post, emitted) ==
  [kind |-> kind, chunk |-> chunk, pre |-> pre, post |-> post, emitted |-> emitted]

\* A run x = [buffer, s, out, steps]: one line l of a record.
ProcessLine(x, l) ==
  LET data == StripPrefix(l)
      a0 == [s |-> x.s, em |-> <<>>]
  IN IF IsNone(data) THEN x
     ELSE LET parsed == FromStr(data[1])
              kind == IF Trim(data[1]) = <<"[DONE]">> THEN "done"
                      ELSE IF IsNone(parsed) THEN "malformed" ELSE "chunk"
              chunk == IF kind = "chunk" THEN parsed[1] ELSE NoChunk
              a == CASE kind = "done" -> ProcessDone(a0)
                     [] kind = "malformed" -> ProcessMalformed(a0)
                     [] OTHER -> ProcessChunk(a0, chunk)
          IN [x EXCEPT !.s = a.s,
                       !.out = @ \o a.em,
                       !.steps = Append(@, Step(kind, chunk, x.s, a.s, a.em))]

RECURSIVE LineLoop(_, _)
LineLoop(x, ls) ==
  IF ls = <<>> THEN x ELSE LineLoop(ProcessLine(x, Head(ls)), Tail(ls))

\* buffer.drain(..=pos + 1): the record and its double newline are removed.
Drain(buffer, pos) == SubSeq(buffer, pos + 2, Len(buffer))

\* RecordLoop with `if let` in place of `while let`: one record per read.
RecordLoop_OneRecord(x) ==
  LET pos == Find(x.buffer)
  IN IF pos = 0 THEN x
     ELSE LET line == SubSeq(x.buffer, 1, pos - 1)
              y == [x EXCEPT !.buffer = Drain(x.buffer, pos)]
          IN IF Trim(line) = <<>> THEN y
             ELSE LineLoop(y, Lines(line))

\* while let Some(pos) = buffer.find("\n\n")
RECURSIVE RecordLoop(_)
RecordLoop(x) ==
  LET pos == Find(x.buffer)
  IN IF pos = 0 THEN x
     ELSE LET line == SubSeq(x.buffer, 1, pos - 1)
              y == [x EXCEPT !.buffer = Drain(x.buffer, pos)]
          IN IF Trim(line) = <<>> THEN RecordLoop(y)
             ELSE RecordLoop(LineLoop(y, Lines(line)))

\* The Ok(bytes) arm: decode, append, process every complete record.
OnBytes(x, bytes) ==
  RecordLoop([x EXCEPT !.buffer = @ \o from_utf8_lossy(bytes)])

\* A fresh call of create_sse_stream, before the first read.
Fresh == [buffer |-> <<>>, s |-> InitState, out |-> <<>>, steps |-> <<>>]

\* ------------------------------------------------------ backend bodies
DataLine(payload) == <<DATA>> \o payload

\* The data payloads a backend record may carry.
Payloads ==
  { <<"C_TEXT", CLOSE>>, <<"C_TEXT", LEAD, CONT, CLOSE>>,
    <<"C_THINK">>, <<"C_TOOL_OPEN">>, <<"C_TOOL_ARGS">>,
    <<"C_TOOL_ID">>, <<"C_TOOL_NAME">>,
    <<"C_STOP", CLOSE>>, <<"C_STOP", "a", CLOSE>>, <<"C_TOOLS_FIN">>,
    <<"C_LENGTH">>, <<"C_FILTER">>, <<"C_USAGE">>, <<"C_NOID">>,
    <<"[DONE]">>, <<"oops">> }

\* One unit of a backend body: a line and what terminates it. A line ended by
\* a single newline shares its record with the next line.
Units ==
  { DataLine(p) \o <<NL, NL>> : p \in Payloads }
    \cup { DataLine(<<"C_THINK">>) \o <<NL>>,
           <<": keepalive", NL, NL>>,
           <<SP, NL, NL>> }

RECURSIVE Bodies(_)
Bodies(n) ==
  IF n = 0 THEN {<<>>}
  ELSE LET shorter == Bodies(n - 1)
       IN shorter \cup {b \o u : b \in shorter, u \in Units}

\* Every body of at most MaxRecords units.
Streams == Bodies(MaxRecords)

\* Complete backend responses of the non-streaming path.
Contents == {None, Some(""), Some("hi")}
ToolCallLists ==
  {None, Some(<<>>), Some(<<ToolCall("t1", "lookup", JsonText.x1_spaced)>>),
   Some(<<ToolCall("t1", "lookup", "{\"x\":")>>)}
FinishReasons ==
  {None, Some("stop"), Some("tool_calls"), Some("length"), Some("content_filter")}
Responses ==
  { OpenAIResponse("r1", "g", <<>>, 4, 0) }
    \cup { OpenAIResponse("r1", "g", <<ResponseChoice(Message(c, t), f)>>, 4, 9) :
             c \in Contents, t \in ToolCallLists, f \in FinishReasons }
    \cup { OpenAIResponse("r1", "g",
             <<ResponseChoice(Message(Some("hi"), None), Some("length")),
               ResponseChoice(Message(Some("second"), None), Some("stop"))>>, 4, 9) }

\* ------------------------------------------------------ client requests
RECURSIVE SeqsUpTo(_, _)
SeqsUpTo(S, n) ==
  IF n = 0 THEN {<<>>}
  ELSE LET shorter == SeqsUpTo(S, n - 1)
       IN shorter \cup {Append(l, e) : l \in shorter, e \in S}

BlockPool ==
  { TextBlock("a"), TextBlock("b"), ImageBlock("image/png", "QUJD"),
    ToolUseBlock("u1", "lookup", JsonValue.x1), ToolUseBlock("u2", "list", JsonValue.empty),
    ToolResultBlock("u0", "42"), ThinkingBlock("hm") }
Roles == {"user", "assistant"}

\* JSON schemas of tool inputs, with the keys of an object in serde_json's
\* map order.
NoMembers == JObject(<<>>, <<>>)
UriString == JObject(<<"format", "type">>, <<JString("uri"), JString("string")>>)
DateString == JObject(<<"format", "type">>, <<JString("date"), JString("string")>>)
LeafSchemas ==
  { UriString, DateString, JString("uri"),
    JObject(<<"format">>, <<JObject(<<"const">>, <<JString("uri")>>)>>),
    JObject(<<"format", "properties">>, <<JString("uri"), JString("uri")>>) }
Wrappers(s) ==
  { JObject(<<"properties", "type">>, <<JObject(<<"a">>, <<s>>), JString("object")>>),
    JObject(<<"format", "properties">>,
            <<JString("uri"), JObject(<<"format", "url">>, <<DateString, s>>)>>),
    JObject(<<"items", "type">>, <<s, JString("array")>>),
    JObject(<<"items">>, <<JArray(<<s>>)>>),
    JObject(<<"default", "format">>, <<s, JString("uri")>>) }
RECURSIVE Schemas(_)
Schemas(depth) ==
  IF depth = 0 THEN LeafSchemas
  ELSE LET inner == Schemas(depth - 1)
       IN inner \cup UNION {Wrappers(s) : s \in inner}

ToolPool ==
  { AnthropicTool("batch", None, NoMembers, Some("BatchTool")),
    AnthropicTool("lookup", Some("find"), UriString, None),
    AnthropicTool("list", None, DateString, Some("custom")) }

Extras ==
  { NoMembers,
    JObject(<<"thinking">>, <<JObject(<<"budget_tokens", "type">>,
                                      <<JString("1024"), JString("enabled")>>)>>),
    JObject(<<"thinking">>, <<JObject(<<"type">>, <<JString("disabled")>>)>>),
    JObject(<<"thinking">>, <<JObject(<<"budget_tokens">>, <<JString("1024")>>)>>),
    JObject(<<"thinking">>, <<JString("enabled")>>) }
Configs == { Config(r, c) : r \in {None, Some("R")}, c \in {None, Some("C")} }
NoOverride == Config(None, None)

BaseRequest ==
  AnthropicRequest("claude", None, <<AnthropicMessage("user", TextContent("hi"))>>,
                   None, None, NoMembers)
ToolUseRequest ==
  [BaseRequest EXCEPT !.messages =
     <<AnthropicMessage("assistant", BlocksContent(<<ToolUseBlock("u1", "lookup", JsonValue.x1)>>))>>]

\* The requests and configurations the request transcoder is run on: every
\* block list of at most MaxBlocks blocks, every tool list of at most MaxTools
\* tools, every schema of depth at most MaxDepth, every thinking setting
\* under every configuration, the forms of the system prompt, and some
\* conversations of two messages.
RequestInputs ==
  { [req |-> [BaseRequest EXCEPT !.messages = <<AnthropicMessage(role, BlocksContent(blocks))>>],
     config |-> NoOverride] : role \in Roles, blocks \in SeqsUpTo(BlockPool, MaxBlocks) }
    \cup { [req |-> [BaseRequest EXCEPT !.tools = tools], config |-> NoOverride] :
             tools \in {None} \cup {Some(l) : l \in SeqsUpTo(ToolPool, MaxTools)} }
    \cup { [req |-> [BaseRequest EXCEPT
                       !.tools = Some(<<AnthropicTool("lookup", None, schema, None)>>)],
            config |-> NoOverride] : schema \in Schemas(MaxDepth) }
    \cup { [req |-> [BaseRequest EXCEPT !.extra = extra], config |-> config] :
             extra \in Extras, config \in Configs }
    \cup { [req |-> [BaseRequest EXCEPT !.system = system], config |-> NoOverride] :
             system \in {Some(SystemSingle("s")), Some(SystemMultiple(<<"s1", "s2">>)),
                         Some(SystemMultiple(<<>>))} }
    \cup { [req |-> [BaseRequest EXCEPT !.messages = <<m1, m2>>], config |-> NoOverride] :
             m1, m2 \in { AnthropicMessage("user", TextContent("hi")),
                          ToolUseRequest.messages[1],
                          AnthropicMessage("user", BlocksContent(
                            <<ToolResultBlock("u1", "42"), TextBlock("a")>>)) } }

\* The requests proxy_handler is run on.
HandlerRequests ==
  { [r EXCEPT !.stream = stream] :
      r \in {BaseRequest, ToolUseRequest}, stream \in {None, Some(FALSE), Some(TRUE)} }

\* The bodies of the backends of concurrent calls: two records each.
ConcStreams ==
  { DataLine(<<"C_TEXT", LEAD, CONT, CLOSE>>) \o <<NL, NL>> \o DataLine(<<"C_TOOL_OPEN">>) \o <<NL, NL>>,
    DataLine(<<"C_TOOL_OPEN">>) \o <<NL, NL>> \o DataLine(<<"C_TOOLS_FIN">>) \o <<NL, NL>>,
    DataLine(<<"C_STOP", CLOSE>>) \o <<NL, NL>> \o DataLine(<<"C_TEXT", LEAD, CONT, CLOSE>>) \o <<NL, NL>> }

\* ---------------------------------------------------------------- state
VARIABLES
  pc,                      \* idle | upstream | streaming | ended | failed | responded
  is_streaming,            \* the request's stream flag
  response,                \* what the handler returned: status, error kind, body
  upstream,                \* the complete backend response decoded, if any
  wire,                    \* the bytes of the backend body
  pos,                     \* how many of them the stream has yielded
  reads,                   \* number of Ok(bytes) items yielded
  decoded,                 \* every character pushed onto the buffer so far
  buffer,
  message_id,
  current_model,
  content_index,
  tool_call_id,
  has_sent_message_start,
  current_block_type,
  out,                     \* the envelopes yielded to the client, in order
  steps,                   \* log of the data payloads processed
  sends,                   \* number of send() calls to the backend
  cause,                   \* the step of the handler that failed, if any
  req,                     \* request transcoder: the Format-A request
  config,                  \* request transcoder: the configuration
  openai_req,              \* request transcoder: the result, once computed
  echoed,                  \* the response transcoder's result on the echo
  tasks                    \* concurrent streaming calls, one record per call

locals ==
  <<message_id, current_model, content_index, tool_call_id,
    has_sent_message_start, current_block_type>>
transcoding == <<req, config, openai_req, echoed>>
vars ==
  <<pc, is_streaming, response, upstream, wire, pos, reads, decoded, buffer, locals,
    out, steps, sends, cause, transcoding, tasks>>
\* The variables of one call of proxy_handler.
handler ==
  <<pc, is_streaming, response, upstream, wire, pos, reads, decoded, buffer, locals,
    out, steps, sends, cause>>

State ==
  [message_id |-> message_id, current_model |-> current_model,
   content_index |-> content_index, tool_call_id |-> tool_call_id,
   has_sent_message_start |-> has_sent_message_start,
   current_block_type |-> current_block_type]

SetState(s) ==
  /\ message_id' = s.message_id
  /\ current_model' = s.current_model
  /\ content_index' = s.content_index
  /\ tool_call_id' = s.tool_call_id
  /\ has_sent_message_start' = s.has_sent_message_start
  /\ current_block_type' = s.current_block_type

\* The handler's HTTP answer: an event stream, a JSON body, or an error.
NoResponse == [status |-> 0, kind |-> "", error |-> "", body |-> <<>>]
SseResponse == [status |-> 200, kind |-> "event-stream", error |-> "", body |-> <<>>]
JsonResponse(body) == [status |-> 200, kind |-> "json", error |-> "", body |-> <<body>>]
ErrorResponse(kind) ==
  [status |-> StatusCode(kind), kind |-> "proxy_error", error |-> kind, body |-> <<>>]

\* A call that has not been made yet.
IdleTask ==
  [pc |-> "idle", wire |-> <<>>, pos |-> 0, decoded |-> <<>>, buffer |-> <<>>,
   s |-> InitState, out |-> <<>>, steps |-> <<>>]
Tasks == {"A", "B"}

\* The handler before a request, with no transcoder run and no concurrent call.
HandlerInit ==
  /\ pc = "idle"
  /\ is_streaming = FALSE
  /\ response = NoResponse
  /\ upstream = None
  /\ wire = <<>>
  /\ pos = 0
  /\ reads = 0
  /\ decoded = <<>>
  /\ buffer = <<>>
  /\ message_id = None
  /\ current_model = None
  /\ content_index = 0
  /\ tool_call_id = None
  /\ has_sent_message_start = FALSE
  /\ current_block_type = None
  /\ out = <<>>
  /\ steps = <<>>
  /\ sends = 0
  /\ cause = ""

Init ==
  /\ HandlerInit
  /\ req = BaseRequest
  /\ config = NoOverride
  /\ openai_req = None
  /\ echoed = None
  /\ tasks = [t \in Tasks |-> IdleTask]

\* proxy_handler up to the dispatch on the stream flag: the request is
\* transcoded, and a failure of that is the handler's answer.
ProxyHandler ==
  /\ pc = "idle"
  /\ \E r \in HandlerRequests, ser \in BOOLEAN :
       LET transformed == anthropic_to_openai(r, NoOverride, ser)
       IN /\ is_streaming' = IF IsSome(r.stream) THEN r.stream[1] ELSE FALSE
          /\ IF transformed.ok
               THEN pc' = "upstream" /\ response' = response /\ cause' = cause
               ELSE /\ pc' = "responded"
                    /\ response' = ErrorResponse(transformed.error)
                    /\ cause' = "transcode"
  /\ UNCHANGED <<upstream, wire, pos, reads, decoded, buffer, locals, out, steps, sends>>
  /\ UNCHANGED <<transcoding, tasks>>

\* handle_non_streaming: the backend answers with a complete response.
HandleNonStreaming ==
  /\ pc = "upstream" /\ ~is_streaming
  /\ \E resp \in Responses :
       LET r == openai_to_anthropic(resp)
       IN /\ upstream' = Some(resp)
          /\ response' = IF r.ok THEN JsonResponse(r.value[1]) ELSE ErrorResponse(r.error)
          /\ cause' = IF r.ok THEN cause ELSE "transform"
  /\ pc' = "responded"
  /\ sends' = sends + 1
  /\ UNCHANGED <<is_streaming, wire, pos, reads, decoded, buffer, locals, out, steps>>
  /\ UNCHANGED <<transcoding, tasks>>

\* The error of each failing step of a handler: send() and response.json()
\* fail with a reqwest::Error, require_success with ProxyError::Upstream.
FailureKind == [send |-> "Http", status |-> "Upstream", decode |-> "Http"]

\* handle_non_streaming that sends again after a failure.
HandleNonStreamingFails_Retries ==
  /\ pc = "upstream" /\ ~is_streaming
  /\ sends < 3
  /\ \E step \in {"send", "status", "decode"} : cause' = step
  /\ sends' = sends + 1
  /\ UNCHANGED <<pc, response, is_streaming, upstream, wire, pos, reads, decoded, buffer,
                 locals, out, steps>>
  /\ UNCHANGED <<transcoding, tasks>>

\* handle_non_streaming: send() fails, the status is not a success, or the
\* body does not decode.
HandleNonStreamingFails ==
  /\ pc = "upstream" /\ ~is_streaming
  /\ \E step \in {"send", "status", "decode"} :
       /\ response' = ErrorResponse(FailureKind[step])
       /\ cause' = step
  /\ pc' = "responded"
  /\ sends' = sends + 1
  /\ UNCHANGED <<is_streaming, upstream, wire, pos, reads, decoded, buffer, locals, out, steps>>
  /\ UNCHANGED <<transcoding, tasks>>

\* handle_streaming reaches create_sse_stream with the backend's body stream.
HandleStreaming ==
  /\ pc = "upstream" /\ is_streaming
  /\ \E w \in Streams : wire' = w
  /\ pc' = "streaming"
  /\ response' = SseResponse
  /\ SetState(InitState)
  /\ buffer' = <<>>
  /\ sends' = sends + 1
  /\ UNCHANGED <<is_streaming, upstream, pos, reads, decoded, out, steps, cause>>
  /\ UNCHANGED <<transcoding, tasks>>

\* handle_streaming: send() fails or the status is not a success.
HandleStreamingFails ==
  /\ pc = "upstream" /\ is_streaming
  /\ \E step \in {"send", "status"} :
       /\ response' = ErrorResponse(FailureKind[step])
       /\ cause' = step
  /\ pc' = "responded"
  /\ sends' = sends + 1
  /\ UNCHANGED <<is_streaming, upstream, wire, pos, reads, decoded, buffer, locals, out, steps>>
  /\ UNCHANGED <<transcoding, tasks>>

\* stream.next() yields Ok(bytes): the next n bytes of the body.
StreamOk ==
  /\ pc = "streaming"
  /\ reads < MaxReads
  /\ \E n \in 1..(Len(wire) - pos) :
       LET bytes == SubSeq(wire, pos + 1, pos + n)
           x == OnBytes([buffer |-> buffer, s |-> State, out |-> out, steps |-> steps],
                        bytes)
       IN /\ pos' = pos + n
          /\ decoded' = decoded \o from_utf8_lossy(bytes)
          /\ buffer' = x.buffer
          /\ SetState(x.s)
          /\ out' = x.out
          /\ steps' = x.steps
  /\ reads' = reads + 1
  /\ UNCHANGED <<pc, is_streaming, response, upstream, wire, sends, cause>>
  /\ UNCHANGED <<transcoding, tasks>>

\* StreamErr without the break: the loop goes on reading.
StreamErr_NoBreak ==
  /\ pc = "streaming"
  /\ out' = Append(out, ErrorEvent)
  /\ UNCHANGED <<pc, is_streaming, response, upstream, wire, pos, reads, decoded, buffer,
                 locals, steps, sends, cause>>
  /\ UNCHANGED <<transcoding, tasks>>

\* stream.next() yields Err(e): the error envelope, then break.
StreamErr ==
  /\ pc = "streaming"
  /\ out' = Append(out, ErrorEvent)
  /\ pc' = "failed"
  /\ UNCHANGED <<is_streaming, response, upstream, wire, pos, reads, decoded, buffer,
                 locals, steps, sends, cause>>
  /\ UNCHANGED <<transcoding, tasks>>

\* stream.next() yields None: the loop and the output stream end.
StreamEnd ==
  /\ pc = "streaming"
  /\ pos = Len(wire)
  /\ pc' = "ended"
  /\ UNCHANGED <<is_streaming, response, upstream, wire, pos, reads, decoded, buffer,
                 locals, out, steps, sends, cause>>
  /\ UNCHANGED <<transcoding, tasks>>

Next ==
  \/ ProxyHandler
  \/ HandleNonStreaming
  \/ HandleNonStreamingFails
  \/ HandleStreaming
  \/ HandleStreamingFails
  \/ StreamOk
  \/ StreamErr
  \/ StreamEnd

Spec == Init /\ [][Next]_vars

\* ------------------------------------- the request transcoder on its own
\* Whether the transcoded request has a message that a backend can send
\* back as the message of a choice: the only message, not a tool message,
\* with no content or a plain string.
CanEcho(r) ==
  /\ r.ok
  /\ Len(r.value[1].messages) = 1
  /\ r.value[1].messages[1].role # "tool"
  /\ IF IsNone(r.value[1].messages[1].content) THEN TRUE
     ELSE r.value[1].messages[1].content[1].kind = "text"

\* The backend response whose single choice carries that message.
EchoResponse(r) ==
  LET m == r.value[1].messages[1]
  IN OpenAIResponse("r1", r.value[1].model,
       <<ResponseChoice(
           Message(IF IsSome(m.content) THEN Some(m.content[1].text) ELSE None, m.tool_calls),
           None)>>, 0, 0)

TranscoderInit ==
  /\ HandlerInit
  /\ \E i \in RequestInputs : req = i.req /\ config = i.config
  /\ openai_req = None
  /\ echoed = None
  /\ tasks = [t \in Tasks |-> IdleTask]

\* transform::anthropic_to_openai on the request.
Transcode ==
  /\ IsNone(openai_req)
  /\ \E ser \in BOOLEAN : openai_req' = Some(anthropic_to_openai(req, config, ser))
  /\ UNCHANGED <<req, config, echoed, handler, tasks>>

\* transform::openai_to_anthropic on the echo of the transcoded message.
RoundTrip ==
  /\ IsSome(openai_req) /\ IsNone(echoed)
  /\ CanEcho(openai_req[1])
  /\ echoed' = Some(openai_to_anthropic(EchoResponse(openai_req[1])))
  /\ UNCHANGED <<req, config, openai_req, handler, tasks>>

TranscoderNext ==
  \/ Transcode
  \/ RoundTrip

TranscoderSpec == TranscoderInit /\ [][TranscoderNext]_vars

\* ------------------------------------------- concurrent streaming calls
\* The locals of create_sse_stream that a read of call t works on.
TaskLocals_SharedBuffer(ts, t) ==
  [buffer |-> ts["A"].buffer, s |-> ts[t].s, out |-> ts[t].out, steps |-> ts[t].steps]

TaskLocals(ts, t) ==
  [buffer |-> ts[t].buffer, s |-> ts[t].s, out |-> ts[t].out, steps |-> ts[t].steps]

\* handle_streaming of call t reaches create_sse_stream.
TaskStart(t) ==
  /\ tasks[t].pc = "idle"
  /\ \E w \in ConcStreams :
       tasks' = [tasks EXCEPT ![t] = [IdleTask EXCEPT !.pc = "streaming", !.wire = w]]
  /\ UNCHANGED <<handler, transcoding>>

\* Call t's stream.next() yields Ok(bytes).
TaskOk(t) ==
  /\ tasks[t].pc = "streaming"
  /\ \E n \in 1..(Len(tasks[t].wire) - tasks[t].pos) :
       LET bytes == SubSeq(tasks[t].wire, tasks[t].pos + 1, tasks[t].pos + n)
           x == OnBytes(TaskLocals(tasks, t), bytes)
       IN tasks' = [tasks EXCEPT ![t] =
            [@ EXCEPT !.pos = @ + n, !.decoded = @ \o from_utf8_lossy(bytes),
                      !.buffer = x.buffer, !.s = x.s, !.out = x.out, !.steps = x.steps]]
  /\ UNCHANGED <<handler, transcoding>>

\* Call t's stream.next() yields Err(e).
TaskErr(t) ==
  /\ tasks[t].pc = "streaming"
  /\ tasks' = [tasks EXCEPT ![t] = [@ EXCEPT !.pc = "failed", !.out = Append(@, ErrorEvent)]]
  /\ UNCHANGED <<handler, transcoding>>

\* Call t's stream.next() yields None.
TaskEnd(t) ==
  /\ tasks[t].pc = "streaming"
  /\ tasks[t].pos = Len(tasks[t].wire)
  /\ tasks' = [tasks EXCEPT ![t] = [@ EXCEPT !.pc = "ended"]]
  /\ UNCHANGED <<handler, transcoding>>

ConcNext ==
  \E t \in Tasks :
    \/ TaskStart(t)
    \/ TaskOk(t)
    \/ TaskErr(t)
    \/ TaskEnd(t)

ConcSpec == Init /\ [][ConcNext]_vars

\* ------------------------------------------------------------- claims
Types(seq) == [i \in 1..Len(seq) |-> seq[i].type]
CountType(seq, type) == Cardinality({i \in 1..Len(seq) : seq[i].type = type})
IsStart(e) == e.type = "content_block_start"
Starts == SelectSeq(out, IsStart)
BlockTypes == {"content_block_start", "content_block_delta", "content_block_stop"}

\* C1: at every message_stop in the output, as many content_block_start as
\* content_block_stop envelopes have been emitted before it.
C1_StartsEqualStopsAtMessageStop ==
  \A i \in 1..Len(out) :
    out[i].type = "message_stop" =>
      CountType(SubSeq(out, 1, i), "content_block_start")
        = CountType(SubSeq(out, 1, i), "content_block_stop")

\* C2: the content_block_start envelopes of a call carry, in emission order,
\* the indices 0, 1, 2, ...
C2_StartIndicesCountUp ==
  \A k \in 1..Len(Starts) : Starts[k].index = k - 1

\* C3: a body delivered in two reads, cut anywhere, produces the envelopes
\* that the same body delivered in one read produces.
C3_TwoReadsSameAsOne ==
  (pc = "ended" /\ reads = 2) => out = OnBytes(Fresh, wire).out

\* C4: at most one message_start; every content-block envelope and every
\* message_delta comes after it; it carries zero token counts.
C4_MessageStartFirstAndOnce ==
  /\ CountType(out, "message_start") <= 1
  /\ \A i \in 1..Len(out) :
       out[i].type \in BlockTypes \cup {"message_delta"} =>
         \E j \in 1..(i - 1) : out[j].type = "message_start"
  /\ \A i \in 1..Len(out) :
       out[i].type = "message_start" =>
         out[i].input_tokens = 0 /\ out[i].output_tokens = 0

\* Two chunks with a choice have been processed, the second one emitting
\* content-block envelopes without a second message_start.
C4_Witness ==
  /\ Len(steps) = 2
  /\ \A k \in 1..2 : steps[k].kind = "chunk" /\ steps[k].chunk.choices # <<>>
  /\ steps[2].emitted # <<>>
  /\ \A i \in 1..Len(steps[2].emitted) : steps[2].emitted[i].type \in BlockTypes
  /\ CountType(out, "message_start") = 1

\* The stop-reason table of the design, written out.
StopReasonTable(r) ==
  CASE r = "tool_calls" -> "tool_use"
    [] r = "stop" -> "end_turn"
    [] r = "length" -> "max_tokens"
    [] OTHER -> "end_turn"

HasChoice(step) == step.kind = "chunk" /\ step.chunk.choices # <<>>
HasFinish(step) == HasChoice(step) /\ IsSome(step.chunk.choices[1].finish_reason)
\* The chunk of a step with its finish reason taken away.
WithoutFinish(step) == [step.chunk EXCEPT !.choices[1].finish_reason = None]

\* C5: a chunk with a finish reason ends with one content_block_stop at the
\* current index iff a block is open, then one message_delta with the mapped
\* stop reason and the chunk's output tokens (null without usage); the finish
\* handling leaves the index and every other local as they were. A first
\* chunk with only non-empty text and a finish reason yields message_start,
\* content_block_start(0, text), the text delta, content_block_stop(0),
\* message_delta.
C5_FinishClosesAndReports ==
  /\ \A k \in 1..Len(steps) :
       HasFinish(steps[k]) =>
         LET chunk == steps[k].chunk
             before == ProcessChunk([s |-> steps[k].pre, em |-> <<>>],
                                    WithoutFinish(steps[k]))
             stop == IF IsSome(before.s.current_block_type)
                       THEN <<ContentBlockStop(before.s.content_index)>>
                       ELSE <<>>
             delta == [Blank EXCEPT
                         !.type = "message_delta",
                         !.stop_reason = StopReasonTable(chunk.choices[1].finish_reason[1]),
                         !.output_tokens = IF IsSome(chunk.usage) THEN chunk.usage[1] ELSE -1]
         IN /\ steps[k].emitted = before.em \o stop \o <<delta>>
            /\ steps[k].post = before.s
  /\ \A k \in 1..Len(steps) :
       ( /\ HasFinish(steps[k])
         /\ steps[k].pre = InitState
         /\ IsNone(steps[k].chunk.choices[1].delta.reasoning)
         /\ IsNone(steps[k].chunk.choices[1].delta.tool_calls)
         /\ IsSome(steps[k].chunk.choices[1].delta.content)
         /\ steps[k].chunk.choices[1].delta.content[1] # <<>> ) =>
         /\ Types(steps[k].emitted) =
              <<"message_start", "content_block_start", "content_block_delta",
                "content_block_stop", "message_delta">>
         /\ steps[k].emitted[2].index = 0 /\ steps[k].emitted[2].block = "text"
         /\ steps[k].emitted[3].index = 0 /\ steps[k].emitted[3].delta = "text_delta"
         /\ steps[k].emitted[3].text = steps[k].chunk.choices[1].delta.content[1]
         /\ steps[k].emitted[4].index = 0

\* The text-and-finish chunk came first, then a finish chunk with usage
\* arrived while the text block was still the open one.
C5_Witness ==
  /\ Len(steps) = 2
  /\ HasFinish(steps[1]) /\ steps[1].pre = InitState
  /\ steps[1].chunk.choices[1].delta.content = Some(<<"a">>)
  /\ Len(steps[1].emitted) = 5
  /\ HasFinish(steps[2]) /\ IsSome(steps[2].chunk.usage)
  /\ IsSome(steps[2].pre.current_block_type)
  /\ Len(steps[2].emitted) = 2

\* Shapes of tool-call chunks.
NoText(choice) ==
  IsNone(choice.delta.reasoning)
    /\ (IsNone(choice.delta.content) \/ choice.delta.content = Some(<<>>))
\* One fragment with a call id and a function name.
IsCallOpening(step) ==
  /\ HasChoice(step) /\ ~HasFinish(step) /\ NoText(step.chunk.choices[1])
  /\ IsSome(step.chunk.choices[1].delta.tool_calls)
  /\ LET tcs == step.chunk.choices[1].delta.tool_calls[1]
     IN /\ Len(tcs) = 1 /\ IsSome(tcs[1].id) /\ IsSome(tcs[1].function)
        /\ IsSome(tcs[1].function[1].name)
\* Fragments with argument text only.
IsArgsOnly(step) ==
  /\ HasChoice(step) /\ NoText(step.chunk.choices[1])
  /\ IsSome(step.chunk.choices[1].delta.tool_calls)
  /\ LET tcs == step.chunk.choices[1].delta.tool_calls[1]
     IN /\ tcs # <<>>
        /\ \A i \in 1..Len(tcs) :
             /\ IsNone(tcs[i].id) /\ IsSome(tcs[i].function)
             /\ IsNone(tcs[i].function[1].name)
             /\ IsSome(tcs[i].function[1].arguments)
\* Steps k..m are one tool call: its opening fragment, argument-only
\* fragments, the last of them finishing with tool_calls.
IsToolCallRun(k, m) ==
  /\ k < m /\ IsCallOpening(steps[k])
  /\ \A j \in (k + 1)..m :
       /\ IsArgsOnly(steps[j])
       /\ IF j = m THEN steps[j].chunk.choices[1].finish_reason = Some("tool_calls")
                   ELSE ~HasFinish(steps[j])

RECURSIVE Emitted(_, _)
Emitted(k, m) == IF k > m THEN <<>> ELSE steps[k].emitted \o Emitted(k + 1, m)

\* C6: in a tool call opened by a fragment with id and name and continued by
\* argument-only fragments up to finish_reason tool_calls, the tool_use
\* content_block_start with that id and name precedes every input_json_delta,
\* all of them carry one index, and the last message_delta says tool_use.
C6_ToolCallScenario ==
  \A k \in 1..Len(steps) : \A m \in 1..Len(steps) :
    IsToolCallRun(k, m) =>
      LET em == Emitted(k, m)
          first == steps[k].chunk.choices[1].delta.tool_calls[1][1]
          starts == {i \in 1..Len(em) : em[i].type = "content_block_start"}
          deltas == {i \in 1..Len(em) : em[i].type = "content_block_delta"}
      IN /\ Cardinality(starts) = 1
         /\ deltas # {}
         /\ \A p \in starts :
              /\ em[p].block = "tool_use"
              /\ em[p].id = first.id[1]
              /\ em[p].name = first.function[1].name[1]
              /\ \A q \in deltas :
                   p < q /\ em[q].delta = "input_json_delta" /\ em[q].index = em[p].index
         /\ em[Len(em)].type = "message_delta"
         /\ em[Len(em)].stop_reason = "tool_use"

\* A tool call has run from its opening fragment to finish_reason tool_calls.
C6_Witness ==
  \E k \in 1..Len(steps) : \E m \in 1..Len(steps) :
    /\ IsToolCallRun(k, m)
    /\ \E i \in 1..Len(out) : out[i].delta = "input_json_delta"
    /\ out[Len(out)].stop_reason = "tool_use"

\* C7: every finish reason maps by the table (tool_calls -> tool_use,
\* stop -> end_turn, length -> max_tokens, anything else -> end_turn), on the
\* streaming path (the message_delta of the chunk) and on the non-streaming
\* path (the stop_reason of the response), and no finish reason is an error.
C7_StopReasonTable ==
  /\ \A k \in 1..Len(steps) :
       HasFinish(steps[k]) =>
         LET em == steps[k].emitted
         IN /\ em # <<>>
            /\ em[Len(em)].type = "message_delta"
            /\ em[Len(em)].stop_reason =
                 StopReasonTable(steps[k].chunk.choices[1].finish_reason[1])
  /\ (IsSome(upstream) /\ upstream[1].choices # <<>>) =>
       /\ response.status = 200
       /\ response.body # <<>>
       /\ LET f == upstream[1].choices[1].finish_reason
          IN response.body[1].stop_reason =
               IF IsSome(f) THEN Some(StopReasonTable(f[1])) ELSE None

\* The streaming path has mapped both length and an unknown finish reason.
C7_Witness ==
  /\ \E k \in 1..Len(steps) :
       HasFinish(steps[k]) /\ steps[k].chunk.choices[1].finish_reason = Some("length")
  /\ \E k \in 1..Len(steps) :
       HasFinish(steps[k])
         /\ steps[k].chunk.choices[1].finish_reason = Some("content_filter")
  /\ \E i \in 1..Len(out) : out[i].stop_reason = "max_tokens"

\* C8: the [DONE] sentinel emits exactly one message_stop and changes none
\* of the locals.
C8_DoneOnlyEmitsMessageStop ==
  \A k \in 1..Len(steps) :
    steps[k].kind = "done" =>
      /\ steps[k].emitted = <<MessageStop>>
      /\ steps[k].post = steps[k].pre

\* [DONE] arrived while a block was open and the message had started.
C8_Witness ==
  \E k \in 1..Len(steps) :
    /\ steps[k].kind = "done"
    /\ IsSome(steps[k].pre.current_block_type)
    /\ steps[k].pre.has_sent_message_start
    /\ out[Len(out)].type = "message_stop"

\* The characters of a line that is a malformed data payload.
IsMalformedLine(l) ==
  LET data == StripPrefix(l)
  IN IsSome(data) /\ Trim(data[1]) # <<"[DONE]">> /\ IsNone(FromStr(data[1]))

\* A character stream with every malformed data line (the line and the
\* newline ending it) taken out.
RECURSIVE RemoveMalformed(_, _)
RemoveMalformed(chars, line) ==
  IF chars = <<>> THEN line
  ELSE IF Head(chars) = NL
    THEN (IF IsMalformedLine(line) THEN <<>> ELSE Append(line, NL))
           \o RemoveMalformed(Tail(chars), <<>>)
  ELSE RemoveMalformed(Tail(chars), Append(line, Head(chars)))

NotError(e) == e.type # "error"

\* C9: a malformed data payload emits nothing and changes no local, and the
\* envelopes emitted for the characters received so far are those emitted
\* for the same characters with the malformed payloads taken out.
C9_MalformedSkipped ==
  /\ \A k \in 1..Len(steps) :
       steps[k].kind = "malformed" =>
         steps[k].emitted = <<>> /\ steps[k].post = steps[k].pre
  /\ LET clean == RecordLoop([Fresh EXCEPT !.buffer = RemoveMalformed(decoded, <<>>)])
     IN /\ SelectSeq(out, NotError) = clean.out
        /\ State = clean.s

\* A malformed payload was skipped and the payload after it was processed.
C9_Witness ==
  /\ Len(steps) = 2
  /\ steps[1].kind = "malformed"
  /\ steps[2].kind = "chunk" /\ steps[2].emitted # <<>>

HasError == \E i \in 1..Len(out) : out[i].type = "error"

\* C10: a transport error appends exactly one error envelope, and from then
\* on nothing is emitted and nothing is read.
C10_ErrorIsTerminal ==
  [][ /\ (~HasError /\ HasError') => out' = Append(out, ErrorEvent)
      /\ HasError => (out' = out /\ pos' = pos /\ reads' = reads) ]_vars

\* The error struck with an unfinished record in the buffer and a block open.
C10_Witness ==
  /\ pc = "failed"
  /\ buffer # <<>>
  /\ IsSome(current_block_type)
  /\ pos < Len(wire)
  /\ Len(out) >= 2 /\ out[Len(out)] = ErrorEvent

\* The tool calls of the first choice of a backend response.
FirstToolCalls(resp) ==
  IF IsSome(resp.choices[1].message.tool_calls)
    THEN resp.choices[1].message.tool_calls[1] ELSE <<>>

\* C11: the response transcoder fails, and then with a Transform error (HTTP
\* 400), exactly when the backend response has no choice. With at least one
\* choice it succeeds, also when the arguments of a tool call are no JSON
\* text: that call becomes a tool-use block whose input is the empty object.
C11_FailsIffNoChoice ==
  IsSome(upstream) =>
    /\ (upstream[1].choices = <<>>) <=> (response.kind = "proxy_error")
    /\ (upstream[1].choices = <<>>) =>
         (response.error = "Transform" /\ response.status = 400 /\ response.body = <<>>)
    /\ (upstream[1].choices # <<>>) =>
         /\ response.kind = "json" /\ response.status = 200
         /\ \A i \in 1..Len(FirstToolCalls(upstream[1])) :
              LET call == FirstToolCalls(upstream[1])[i]
                  body == response.body[1]
                  block == body.content[Len(body.content) - Len(FirstToolCalls(upstream[1])) + i]
              IN /\ block.type = "tool_use" /\ block.id = call.id /\ block.name = call.name
                 /\ (call.arguments = "{\"x\":") => (block.input = "object{}")

\* A response whose tool call has arguments that are no JSON text was
\* transcoded.
C11_Witness ==
  /\ IsSome(upstream)
  /\ upstream[1].choices # <<>>
  /\ \E i \in 1..Len(FirstToolCalls(upstream[1])) :
       FirstToolCalls(upstream[1])[i].arguments = "{\"x\":"
  /\ response.kind = "json"

\* A run of the request transcoder on one message with block content and no
\* system prompt, so that the emitted messages are those of convert_message.
IsBlocksRun ==
  /\ IsSome(openai_req) /\ openai_req[1].ok
  /\ IsNone(req.system)
  /\ Len(req.messages) = 1
  /\ req.messages[1].content.kind = "blocks"
InBlocks == req.messages[1].content.blocks
OutMessages == openai_req[1].value[1].messages
IsToolResult(b) == b.type = "tool_result"
IsVisible(b) == b.type \in {"text", "image"}
IsToolUse(b) == b.type = "tool_use"
IsToolMessage(m) == m.role = "tool"
IsRoleMessage(m) == m.role # "tool"
ToolMessages == SelectSeq(OutMessages, IsToolMessage)
RoleMessages == SelectSeq(OutMessages, IsRoleMessage)

\* One tool message per tool-result block, with its id and text, in block
\* order; nothing for thinking; one role message iff some text, image or
\* tool-use block exists; the role message holds no tool result.
OneMessagePerToolResult ==
  LET results == SelectSeq(InBlocks, IsToolResult)
      visible == SelectSeq(InBlocks, IsVisible)
      accumulated == \E i \in 1..Len(InBlocks) : IsVisible(InBlocks[i]) \/ IsToolUse(InBlocks[i])
  IN /\ Len(ToolMessages) = Len(results)
     /\ \A i \in 1..Len(results) :
          /\ ToolMessages[i].tool_call_id = Some(results[i].tool_use_id)
          /\ ToolMessages[i].content = Some(ContentText(results[i].content))
          /\ ToolMessages[i].tool_calls = None
     /\ Len(RoleMessages) = IF accumulated THEN 1 ELSE 0
     /\ \A i \in 1..Len(RoleMessages) :
          /\ RoleMessages[i].role = req.messages[1].role
          /\ RoleMessages[i].tool_call_id = None
          /\ IF IsNone(RoleMessages[i].content) THEN visible = <<>>
             ELSE IF RoleMessages[i].content[1].kind = "text" THEN Len(visible) = 1
             ELSE Len(RoleMessages[i].content[1].parts) = Len(visible)

\* The position in the emitted sequence of the message that carries the
\* content of block i (a text, image, tool-use or tool-result block).
MessageOf(i) ==
  IF IsToolResult(InBlocks[i])
    THEN LET nth == Len(SelectSeq(SubSeq(InBlocks, 1, i), IsToolResult))
         IN CHOOSE p \in 1..Len(OutMessages) :
              /\ IsToolMessage(OutMessages[p])
              /\ Len(SelectSeq(SubSeq(OutMessages, 1, p), IsToolMessage)) = nth
    ELSE CHOOSE p \in 1..Len(OutMessages) : IsRoleMessage(OutMessages[p])

\* C12 as stated: the emitted messages are as OneMessagePerToolResult says and
\* the content of an earlier block is never emitted after that of a later one.
C12_BlockOrderPreserved ==
  IsBlocksRun =>
    /\ OneMessagePerToolResult
    /\ \A i, j \in 1..Len(InBlocks) :
         (i < j /\ InBlocks[i].type # "thinking" /\ InBlocks[j].type # "thinking")
           => MessageOf(i) <= MessageOf(j)

\* C12: convert_message on block content emits one role="tool" message per
\* tool-result block, with that block's tool-use id and text and in block
\* order; nothing for a thinking block; exactly one message with the original
\* role iff there is a text, image or tool-use block, and no tool result is
\* merged into it. The role message is the last one emitted: the content of a
\* text, image or tool-use block that precedes a tool-result block comes
\* after that tool result's message.
C12_ToolMessagesThenRoleMessage ==
  IsBlocksRun =>
    /\ OneMessagePerToolResult
    /\ \A p \in 1..Len(OutMessages) :
         IsRoleMessage(OutMessages[p]) <=> (RoleMessages # <<>> /\ p = Len(OutMessages))

\* A message with a thinking block, then a text block, then a tool result
\* was transcoded: the tool message came out first, the role message second.
C12_Witness ==
  /\ IsBlocksRun
  /\ Len(InBlocks) = 3
  /\ InBlocks[1].type = "thinking" /\ InBlocks[2].type = "text" /\ IsToolResult(InBlocks[3])
  /\ Len(OutMessages) = 2
  /\ IsToolMessage(OutMessages[1]) /\ IsRoleMessage(OutMessages[2])

\* The content part a text or image block becomes.
ExpectedPart(b) ==
  IF b.type = "text" THEN PartText(b.text)
  ELSE PartImageUrl(<<"data:", b.media_type, ";base64,", b.data>>)

\* C13: the role message of convert_message has no content when the message
\* has no text or image block, the bare text when it has exactly one and that
\* is a text block, and the list of all parts otherwise, a single image
\* included; tool_calls is present iff there is a tool-use block, and lists
\* the tool-use blocks in block order.
C13_RoleMessageContent ==
  (IsBlocksRun /\ RoleMessages # <<>>) =>
    LET visible == SelectSeq(InBlocks, IsVisible)
        uses == SelectSeq(InBlocks, IsToolUse)
        m == RoleMessages[1]
    IN /\ (visible = <<>>) => m.content = None
       /\ (Len(visible) = 1 /\ visible[1].type = "text")
            => m.content = Some(ContentText(visible[1].text))
       /\ (Len(visible) > 1 \/ (Len(visible) = 1 /\ visible[1].type = "image"))
            => /\ IsSome(m.content)
               /\ m.content[1].kind = "parts"
               /\ Len(m.content[1].parts) = Len(visible)
               /\ \A i \in 1..Len(visible) : m.content[1].parts[i] = ExpectedPart(visible[i])
       /\ IsSome(m.tool_calls) <=> (uses # <<>>)
       /\ (uses # <<>>) =>
            /\ Len(m.tool_calls[1]) = Len(uses)
            /\ \A i \in 1..Len(uses) :
                 /\ m.tool_calls[1][i].id = uses[i].id
                 /\ m.tool_calls[1][i].name = uses[i].name
                 /\ from_str_value(m.tool_calls[1][i].arguments) = Some(uses[i].input)

\* A message with one image block and two tool-use blocks was transcoded: the
\* content is a list with the one image part and both calls are listed.
C13_Witness ==
  /\ IsBlocksRun /\ RoleMessages # <<>>
  /\ Len(SelectSeq(InBlocks, IsVisible)) = 1
  /\ SelectSeq(InBlocks, IsVisible)[1].type = "image"
  /\ Len(SelectSeq(InBlocks, IsToolUse)) = 2
  /\ RoleMessages[1].content[1].kind = "parts"
  /\ Len(RoleMessages[1].tool_calls[1]) = 2

\* A finished run of the request transcoder, and its result.
IsTranscoded == IsSome(openai_req) /\ openai_req[1].ok
OutRequest == openai_req[1].value[1]

\* The request's extra fields hold an object "thinking" whose "type" is the
\* string "enabled".
ThinkingEnabled ==
  \E i \in 1..Len(req.extra.k) :
    /\ req.extra.k[i] = "thinking"
    /\ req.extra.m[i].t = "object"
    /\ \E j \in 1..Len(req.extra.m[i].k) :
         req.extra.m[i].k[j] = "type" /\ req.extra.m[i].m[j] = JString("enabled")

\* C14: the model of the outgoing request is the reasoning override when
\* thinking is enabled and that override is configured, the completion
\* override when thinking is not enabled and that override is configured,
\* and the request's own model otherwise.
C14_ModelSelection ==
  IsTranscoded =>
    OutRequest.model =
      IF ThinkingEnabled /\ IsSome(config.reasoning_model) THEN config.reasoning_model[1]
      ELSE IF ~ThinkingEnabled /\ IsSome(config.completion_model) THEN config.completion_model[1]
      ELSE req.model

\* Thinking is enabled, only the completion override is configured, and the
\* request went out under its own model.
C14_Witness ==
  /\ IsTranscoded
  /\ ThinkingEnabled
  /\ IsNone(config.reasoning_model) /\ IsSome(config.completion_model)
  /\ OutRequest.model = req.model

\* The tools of the request that are no batch pseudo-tool, in order.
IsInvocable(t) == t.tool_type # <<"BatchTool">>
Invocable == IF IsSome(req.tools) THEN SelectSeq(req.tools[1], IsInvocable) ELSE <<>>

\* C15: the outgoing request lists the tools of the request whose type is not
\* "BatchTool", in their order, as functions with the same name and
\* description; its tools field is absent when none remains (no tools, an
\* empty list, only batch tools) and a non-empty list otherwise.
C15_BatchToolsDropped ==
  IsTranscoded =>
    /\ IsNone(OutRequest.tools) <=> (Invocable = <<>>)
    /\ (Invocable # <<>>) =>
         /\ Len(OutRequest.tools[1]) = Len(Invocable)
         /\ \A i \in 1..Len(Invocable) :
              /\ OutRequest.tools[1][i].tool_type = "function"
              /\ OutRequest.tools[1][i].function.name = Invocable[i].name
              /\ OutRequest.tools[1][i].function.description = Invocable[i].description

\* A request whose tools are all batch tools went out without a tools field.
C15_Witness ==
  /\ IsTranscoded
  /\ IsSome(req.tools) /\ req.tools[1] # <<>>
  /\ Invocable = <<>>
  /\ IsNone(OutRequest.tools)

\* The schema nodes directly under a node: the values of its "properties",
\* and its "items", whether one schema or a list of schemas.
SubSchemas(v) ==
  IF v.t # "object" THEN <<>>
  ELSE (IF has_key(v, "properties") /\ get(v, "properties")[1].t = "object"
          THEN get(v, "properties")[1].m ELSE <<>>)
       \o (IF ~has_key(v, "items") THEN <<>>
           ELSE IF get(v, "items")[1].t = "array" THEN get(v, "items")[1].m
           ELSE <<get(v, "items")[1]>>)

\* No node reachable through "properties" values or "items" has "format": "uri".
RECURSIVE NoUriFormat(_)
NoUriFormat(v) ==
  /\ get(v, "format") # Some(JString("uri"))
  /\ \A i \in 1..Len(SubSchemas(v)) : NoUriFormat(SubSchemas(v)[i])

\* b is a, but for "format": "uri" entries of the nodes reachable through
\* "properties" values or "items".
RECURSIVE SameButUriFormat(_, _)
SameButUriFormat(a, b) ==
  IF a.t # "object" THEN
    IF a.t = "array"
      THEN /\ b.t = "array" /\ Len(b.m) = Len(a.m)
           /\ \A i \in 1..Len(a.m) : SameButUriFormat(a.m[i], b.m[i])
      ELSE b = a
  ELSE LET kept == IF get(a, "format") = Some(JString("uri")) THEN remove(a, "format") ELSE a
       IN /\ b.t = "object" /\ b.k = kept.k
          /\ \A i \in 1..Len(kept.k) :
               IF kept.k[i] = "items"
                 THEN SameButUriFormat(kept.m[i], b.m[i])
               ELSE IF kept.k[i] = "properties" /\ kept.m[i].t = "object"
                 THEN /\ b.m[i].t = "object" /\ b.m[i].k = kept.m[i].k
                      /\ \A j \in 1..Len(kept.m[i].m) :
                           SameButUriFormat(kept.m[i].m[j], b.m[i].m[j])
               ELSE b.m[i] = kept.m[i]

\* C16: the parameters of every tool of the outgoing request have no
\* "format": "uri" entry in the root schema or in a schema node reachable
\* from it through "properties" values or "items", at any depth, and are
\* otherwise the tool's input schema: other format values and all other keys
\* are kept.
C16_NoUriFormatLeft ==
  (IsTranscoded /\ Invocable # <<>>) =>
    \A i \in 1..Len(Invocable) :
      /\ NoUriFormat(OutRequest.tools[1][i].function.parameters)
      /\ SameButUriFormat(Invocable[i].input_schema,
                          OutRequest.tools[1][i].function.parameters)

\* The text and the tool-use blocks of a Format-A content list.
IsTextBlock(b) == b.type = "text"
TextOf(blocks) == [i \in 1..Len(SelectSeq(blocks, IsTextBlock)) |->
                     SelectSeq(blocks, IsTextBlock)[i].text]
ToolUsesOf(blocks) ==
  [i \in 1..Len(SelectSeq(blocks, IsToolUse)) |->
     [id |-> SelectSeq(blocks, IsToolUse)[i].id,
      name |-> SelectSeq(blocks, IsToolUse)[i].name,
      input |-> SelectSeq(blocks, IsToolUse)[i].input]]

\* C17: a message with text and tool-use content whose transcoded form was
\* sent back as the single choice of a backend response comes out of the
\* response transcoder with the same role, the same text and the same
\* tool-call names, ids and arguments.
C17_RoundTrip ==
  (IsBlocksRun /\ IsSome(echoed)) =>
    /\ echoed[1].ok
    /\ echoed[1].value[1].role = req.messages[1].role
    /\ TextOf(echoed[1].value[1].content) = TextOf(InBlocks)
    /\ ToolUsesOf(echoed[1].value[1].content) = ToolUsesOf(InBlocks)

\* C18: one call of proxy_handler sends at most one request to the backend,
\* whatever the outcome, and none when the transcoding of the request failed.
C18_AtMostOneBackendCall ==
  /\ sends <= 1
  /\ (cause = "transcode") => (sends = 0 /\ pc = "responded")
  /\ (pc \in {"streaming", "ended", "failed"}) => sends = 1
  /\ (pc = "responded" /\ cause # "transcode") => sends = 1

\* The backend call failed at send() and the handler answered after that one
\* call.
C18_Witness ==
  /\ pc = "responded"
  /\ cause = "send"
  /\ sends = 1

\* The HTTP status the claim gives for each kind of error and for each
\* failing step.
StatusTable ==
  [Transform |-> 400, Serialization |-> 400, Upstream |-> 502, Http |-> 502,
   Config |-> 500, Internal |-> 500]
StepStatus ==
  [transcode |-> 400, send |-> 502, status |-> 502, decode |-> 502, transform |-> 400]

\* C19: a failure before the response is committed (request transcoding, send,
\* backend status, and on the non-streaming path the decoding of the body and
\* a response without choices) is answered with an HTTP error of the mapped
\* status, without a Format-A body and without any event; the error event is
\* only seen on a stream that was started with a 200 answer.
C19_ErrorsBeforeCommit ==
  /\ \A kind \in DOMAIN StatusTable : StatusCode(kind) = StatusTable[kind]
  /\ (cause # "") =>
       /\ pc = "responded"
       /\ response.kind = "proxy_error"
       /\ response.status = StepStatus[cause]
       /\ response.status = StatusTable[response.error]
       /\ response.body = <<>>
       /\ out = <<>>
       /\ is_streaming => cause \in {"transcode", "send", "status"}
  /\ (response.kind = "proxy_error") => (cause # "" /\ out = <<>>)
  /\ HasError => (pc = "failed" /\ response = SseResponse)

\* The backend's body did not decode and the handler answered 502.
C19_Witness ==
  /\ pc = "responded"
  /\ cause = "decode"
  /\ response.status = 502
  /\ response.body = <<>>

\* What a call emits for the characters it decoded when it runs alone.
Alone(task) ==
  LET emitted == RecordLoop([Fresh EXCEPT !.buffer = task.decoded]).out
  IN IF task.pc = "failed" THEN Append(emitted, ErrorEvent) ELSE emitted

\* C20: whatever the interleaving of the reads of concurrent streaming calls,
\* each call has emitted exactly what it emits for its own input when it
\* runs alone, and a call starts from fresh transcoder state.
C20_CallsDoNotInterfere ==
  \A t \in Tasks :
    /\ tasks[t].out = Alone(tasks[t])
    /\ [buffer |-> tasks[t].buffer, s |-> tasks[t].s] =
         [buffer |-> RecordLoop([Fresh EXCEPT !.buffer = tasks[t].decoded]).buffer,
          s |-> RecordLoop([Fresh EXCEPT !.buffer = tasks[t].decoded]).s]

\* Both calls are in the middle of different bodies and both have emitted
\* envelopes: their reads were interleaved.
C20_Witness ==
  /\ \A t \in Tasks :
       /\ tasks[t].pc = "streaming"
       /\ 0 < tasks[t].pos /\ tasks[t].pos < Len(tasks[t].wire)
       /\ tasks[t].out # <<>>
       /\ tasks[t].buffer # <<>>
  /\ tasks["A"].wire # tasks["B"].wire

\* The envelopes of a step after its message_start, if it emitted one.
AfterMessageStart(step) ==
  IF step.emitted # <<>> /\ step.emitted[1].type = "message_start"
    THEN Tail(step.emitted) ELSE step.emitted
\* What the finish handling may add at the end of a step.
IsFinishPart(e) == e.type \in {"content_block_stop", "message_delta"}

\* A chunk whose delta carries visible text and neither reasoning nor tool
\* calls.
IsTextStep(step) ==
  /\ HasChoice(step)
  /\ IsSome(step.chunk.choices[1].delta.content)
  /\ IsNone(step.chunk.choices[1].delta.reasoning)
  /\ IsNone(step.chunk.choices[1].delta.tool_calls)

\* C21: a non-empty text delta emits only a text_delta at the current index
\* when the open block is a text block; otherwise it emits a
\* content_block_stop at the current index and advances the index iff a block
\* is open, then a content_block_start of kind text and the text_delta, both
\* at the index reached. An empty text delta emits nothing and leaves the
\* index, the open kind and the remembered call id as they were.
C21_TextDelta ==
  \A k \in 1..Len(steps) :
    IsTextStep(steps[k]) =>
      LET pre == steps[k].pre
          post == steps[k].post
          content == steps[k].chunk.choices[1].delta.content[1]
          em == AfterMessageStart(steps[k])
          index == pre.content_index
          open == pre.current_block_type
          next == IF IsSome(open) THEN index + 1 ELSE index
          expected ==
            IF content = <<>> THEN <<>>
            ELSE IF open = Some("text")
              THEN <<ContentBlockDelta(index, "text_delta", content)>>
            ELSE (IF IsSome(open) THEN <<ContentBlockStop(index)>> ELSE <<>>)
                   \o <<ContentBlockStart(next, "text", "", ""),
                        ContentBlockDelta(next, "text_delta", content)>>
      IN /\ Len(em) >= Len(expected)
         /\ SubSeq(em, 1, Len(expected)) = expected
         /\ \A i \in (Len(expected) + 1)..Len(em) : IsFinishPart(em[i])
         /\ ~HasFinish(steps[k]) => em = expected
         /\ post.content_index =
              IF content = <<>> \/ open = Some("text") THEN index ELSE next
         /\ post.current_block_type = IF content = <<>> THEN open ELSE Some("text")
         /\ post.tool_call_id = pre.tool_call_id

\* Text arrived while a thinking block was open: the block was closed at
\* index 0 and the text block opened at index 1.
C21_Witness ==
  /\ Len(steps) = 2
  /\ IsTextStep(steps[2]) /\ ~HasFinish(steps[2])
  /\ steps[2].pre.current_block_type = Some("thinking")
  /\ Types(steps[2].emitted) =
       <<"content_block_stop", "content_block_start", "content_block_delta">>
  /\ steps[2].post.content_index = 1

\* A chunk whose delta carries reasoning and neither text nor tool calls.
IsReasoningStep(step) ==
  /\ HasChoice(step)
  /\ IsSome(step.chunk.choices[1].delta.reasoning)
  /\ IsNone(step.chunk.choices[1].delta.content)
  /\ IsNone(step.chunk.choices[1].delta.tool_calls)

\* C23: a reasoning delta emits a content_block_start of kind thinking at the
\* current index iff no block is open, never a content_block_stop, and always
\* a thinking_delta at the current index, also when a text or tool_use block
\* is the open one; it leaves the index as it was, and the open kind too
\* unless no block was open.
C23_ReasoningDelta ==
  \A k \in 1..Len(steps) :
    IsReasoningStep(steps[k]) =>
      LET pre == steps[k].pre
          post == steps[k].post
          reasoning == steps[k].chunk.choices[1].delta.reasoning[1]
          em == AfterMessageStart(steps[k])
          index == pre.content_index
          expected ==
            (IF IsNone(pre.current_block_type)
               THEN <<ContentBlockStart(index, "thinking", "", "")>> ELSE <<>>)
              \o <<ContentBlockDelta(index, "thinking_delta", <<reasoning>>)>>
      IN /\ Len(em) >= Len(expected)
         /\ SubSeq(em, 1, Len(expected)) = expected
         /\ \A i \in (Len(expected) + 1)..Len(em) : IsFinishPart(em[i])
         /\ ~HasFinish(steps[k]) => em = expected
         /\ post.content_index = index
         /\ post.current_block_type =
              IF IsNone(pre.current_block_type) THEN Some("thinking")
              ELSE pre.current_block_type

\* Reasoning arrived while a text block was open: only the thinking_delta was
\* emitted, at the text block's index.
C23_Witness ==
  /\ Len(steps) = 2
  /\ IsReasoningStep(steps[2])
  /\ steps[2].pre.current_block_type = Some("text")
  /\ Len(steps[2].emitted) = 1
  /\ steps[2].emitted[1].delta = "thinking_delta"
  /\ steps[2].emitted[1].index = steps[2].pre.content_index
  /\ current_block_type = Some("text")

\* A chunk whose delta carries tool-call fragments and neither reasoning nor
\* text.
IsToolCallStep(step) ==
  /\ HasChoice(step)
  /\ IsSome(step.chunk.choices[1].delta.tool_calls)
  /\ IsNone(step.chunk.choices[1].delta.reasoning)
  /\ IsNone(step.chunk.choices[1].delta.content)

\* What one fragment does to the index, the remembered id and the envelopes
\* when the open block is closed for the fragments that `closes` selects.
FragmentEffect(c, f, closes) ==
  LET c1 == IF closes
              THEN [c EXCEPT !.em = IF IsSome(c.open)
                                      THEN Append(@, ContentBlockStop(c.index)) ELSE @,
                             !.index = IF IsSome(c.open) THEN @ + 1 ELSE @,
                             !.id = f.id]
              ELSE c
      c2 == IF IsSome(f.function) /\ IsSome(f.function[1].name)
              THEN [c1 EXCEPT !.em = Append(@, ContentBlockStart(c1.index, "tool_use",
                                                  UnwrapOrDefault(c1.id),
                                                  f.function[1].name[1])),
                              !.open = Some("tool_use")]
              ELSE c1
  IN IF IsSome(f.function) /\ IsSome(f.function[1].arguments)
       THEN [c2 EXCEPT !.em = Append(@, ContentBlockDelta(c2.index, "input_json_delta",
                                           <<f.function[1].arguments[1]>>))]
       ELSE c2

\* A fragment carries a new call id: an id that differs from the remembered
\* one.
CarriesNewId(c, f) == IsSome(f.id) /\ f.id # c.id

RECURSIVE FragmentsWithNewId(_, _)
FragmentsWithNewId(c, fs) ==
  IF fs = <<>> THEN c
  ELSE FragmentsWithNewId(FragmentEffect(c, Head(fs), CarriesNewId(c, Head(fs))), Tail(fs))

\* C22: for each tool-call fragment the open block is closed with a
\* content_block_stop and the index advanced iff the fragment carries a call
\* id that differs from the remembered one, and that id is remembered; a
\* function name emits a content_block_start of kind tool_use at the current
\* index with the remembered id and that name; argument text emits an
\* input_json_delta with that string at the current index.
C22_ClosesIffNewId ==
  \A k \in 1..Len(steps) :
    IsToolCallStep(steps[k]) =>
      LET pre == steps[k].pre
          post == steps[k].post
          em == AfterMessageStart(steps[k])
          claimed == FragmentsWithNewId(
                       [index |-> pre.content_index, open |-> pre.current_block_type,
                        id |-> pre.tool_call_id, em |-> <<>>],
                       steps[k].chunk.choices[1].delta.tool_calls[1])
      IN /\ Len(em) >= Len(claimed.em)
         /\ SubSeq(em, 1, Len(claimed.em)) = claimed.em
         /\ \A i \in (Len(claimed.em) + 1)..Len(em) : IsFinishPart(em[i])
         /\ post.content_index = claimed.index
         /\ post.tool_call_id = claimed.id

\* The part of the decoded input that has left the buffer.
Extracted == SubSeq(decoded, 1, Len(decoded) - Len(buffer))
\* The positions of `text` where a line with a data payload begins.
DataLines(text) ==
  {i \in 1..Len(text) : text[i] = DATA /\ (i = 1 \/ text[i - 1] = NL)}

\* C25: whenever the call waits for its next read, the buffer holds no double
\* newline: it is the tail of the decoded input after the last record
\* boundary, what precedes it ends at a record boundary, and every data line
\* of the extracted records has been processed.
C25_NoCompleteRecordLeft ==
  pc = "streaming" =>
    /\ Find(buffer) = 0
    /\ Len(buffer) <= Len(decoded)
    /\ SubSeq(decoded, Len(decoded) - Len(buffer) + 1, Len(decoded)) = buffer
    /\ Extracted # <<>> =>
         /\ Len(Extracted) >= 2
         /\ SubSeq(Extracted, Len(Extracted) - 1, Len(Extracted)) = <<NL, NL>>
    /\ Len(steps) = Cardinality(DataLines(Extracted))

\* One read brought a whole record and the start of the next, up to the first
\* of its two newlines: the record was processed, the rest waits.
C25_Witness ==
  /\ pc = "streaming"
  /\ reads = 1
  /\ Len(steps) = 1
  /\ Len(buffer) >= 2
  /\ buffer[Len(buffer)] = NL

\* The block kind a delta type belongs to.
DeltaBlock(delta) ==
  CASE delta = "thinking_delta" -> "thinking"
    [] delta = "text_delta" -> "text"
    [] delta = "input_json_delta" -> "tool_use"
    [] OTHER -> ""

\* Envelope j opened the block that is still open at envelope i: it is a
\* content_block_start at the same index with no content_block_stop at that
\* index in between.
OpensBlockOf(j, i) ==
  /\ out[j].type = "content_block_start"
  /\ out[j].index = out[i].index
  /\ \A m \in (j + 1)..(i - 1) :
       ~(out[m].type = "content_block_stop" /\ out[m].index = out[i].index)

\* C26: every content_block_delta is emitted at an index whose block is open
\* (its content_block_start came before and no content_block_stop at that
\* index since) and whose kind matches the delta type.
C26_DeltasInsideMatchingBlock ==
  \A i \in 1..Len(out) :
    out[i].type = "content_block_delta" =>
      \E j \in 1..(i - 1) :
        /\ OpensBlockOf(j, i)
        /\ out[j].block = DeltaBlock(out[i].delta)

\* C27: message_stop is emitted at most once, and no content-block or
\* message_delta envelope follows it.
C27_MessageStopIsLast ==
  /\ CountType(out, "message_stop") <= 1
  /\ \A i \in 1..Len(out) : \A j \in (i + 1)..Len(out) :
       out[i].type = "message_stop" =>
         out[j].type \notin BlockTypes \cup {"message_delta"}

\* The chunks processed up to step k that carry a non-empty value of the
\* field.
CarryingId(k) == {j \in 1..k : steps[j].kind = "chunk" /\ steps[j].chunk.id # ""}
CarryingModel(k) == {j \in 1..k : steps[j].kind = "chunk" /\ steps[j].chunk.model # ""}
Least(S) == CHOOSE j \in S : \A i \in S : j <= i
FirstNonEmptyId(k) ==
  IF CarryingId(k) = {} THEN "" ELSE steps[Least(CarryingId(k))].chunk.id
FirstNonEmptyModel(k) ==
  IF CarryingModel(k) = {} THEN "" ELSE steps[Least(CarryingModel(k))].chunk.model

\* C24: the message id and the model id are each the value of the first chunk
\* that carries a non-empty id (respectively model), they do not change once
\* set, and message_start carries them.
C24_IdsFromFirstNonEmpty ==
  /\ \A k \in 1..Len(steps) :
       /\ UnwrapOrDefault(steps[k].post.message_id) = FirstNonEmptyId(k)
       /\ UnwrapOrDefault(steps[k].post.current_model) = FirstNonEmptyModel(k)
       /\ IsSome(steps[k].pre.message_id) =>
            steps[k].post.message_id = steps[k].pre.message_id
       /\ IsSome(steps[k].pre.current_model) =>
            steps[k].post.current_model = steps[k].pre.current_model
  /\ \A i \in 1..Len(out) :
       out[i].type = "message_start" =>
         /\ out[i].id = UnwrapOrDefault(message_id)
         /\ out[i].model = UnwrapOrDefault(current_model)

====
